---- MODULE Spec2Model ----
(***************************************************************************)
(* A model of the serial-port package: the timeout translation             *)
(* (posixTimeoutValues, setCommTimeouts), the open sequence of each        *)
(* backend (openPort / OpenPort), the trace logger of BasePort, and the    *)
(* read / write / flush / line-control / close operations, each taken     *)
(* step by step, so that the calls of several goroutines interleave.       *)
(***************************************************************************)
EXTENDS Integers, Sequences, FiniteSets, TLC

VARIABLES
    tin,      \* the time.Duration handed to a timeout translation
    tfn,      \* which translation has been applied to tin ("none" before)
    tout,     \* its result
    backend,  \* which build of the package runs
    phase,    \* "new" before OpenPort, then "open" (a Port was returned) or "failed";
              \* "panicked" once a call has ended in a run-time panic
    cfg,      \* the Config OpenPort was called with
    ret,      \* what OpenPort returned and did: see OpenResult
    fd,       \* the device descriptor: [opens, closes]
    tmo,      \* the timeout parameters installed on the device
    lg,       \* the logger state of the Port: see NewLog
    closed,   \* Close has returned
    calls,    \* the number of calls made on the Port
    call,     \* per caller: the frame of the call it is inside (see Idle)
    rl,       \* Port.rl: 0, or the caller holding it
    wl,       \* Port.wl: 0, or the caller holding it
    ov,       \* Port.ro and Port.wo: the two OVERLAPPED structures
    res,      \* what the last step returned to a caller (NoCall: nothing)
    logged    \* the logger calls made so far, in order: an entry [op, tag, byte]
              \* per byte handed to logData, and one per logMsg or logFlush

\* what the calls on a Port leave alone
tvars == <<tin, tfn, tout, logged>>

pvars == <<backend, phase, cfg, ret, fd, tmo, lg, closed, calls, call, rl, wl,
           ov, res>>

vars == <<tin, tfn, tout, backend, phase, cfg, ret, fd, tmo, lg, closed, calls,
          call, rl, wl, ov, res, logged>>

(***************************************************************************)
(* time.Duration.  A Duration is an int64 count of nanoseconds; the model  *)
(* checker's integers are 32 bits wide, so a Duration is kept in limbs:    *)
(*     |d| = (hi * 65536 + lo) * 1e6 + ns   nanoseconds,                   *)
(* with 0 <= lo < 65536 and 0 <= ns < 1e6, and neg the sign.  A uint32 is  *)
(* the pair [hi, lo] of its 16-bit halves.                                 *)
(***************************************************************************)
Limb == 256 * 256

NsPerMs == 1000000

Dur(h, l, n) == [neg |-> FALSE, hi |-> h, lo |-> l, ns |-> n]

Ms(m) == Dur(0, m, 0)

\* readTimeout > 0
DurPositive(d) == ~d.neg /\ (d.hi > 0 \/ d.lo > 0 \/ d.ns > 0)

DurZero(d) == d.hi = 0 /\ d.lo = 0 /\ d.ns = 0

\* readTimeout.Nanoseconds() / 1e6 for a positive Duration: the whole
\* milliseconds, as the pair [hi, lo]; the sub-millisecond part is dropped.
NanosecondsDiv1e6(d) == [hi |-> d.hi, lo |-> d.lo]

\* x / 100 on a limbed non-negative integer (Go's truncating division).
Div100(x) ==
    [hi |-> x.hi \div 100,
     lo |-> ((x.hi % 100) * Limb + x.lo) \div 100]

\* x < k and x > k for a limbed x and a small constant k (0 <= k < 65536).
LimbLt(x, k) == x.hi = 0 /\ x.lo < k

LimbGt(x, k) == x.hi > 0 \/ x.lo > k

\* uint8(x): the low eight bits.
Uint8(x) == x.lo % 256

\* uint32(x): the low thirty-two bits.
Uint32(x) == [hi |-> x.hi % Limb, lo |-> x.lo]

\* MAXDWORD = 1<<32 - 1 and MAXDWORD - 1
MAXDWORD == [hi |-> 65535, lo |-> 65535]

MAXDWORDm1 == [hi |-> 65535, lo |-> 65534]

DwordZero == [hi |-> 0, lo |-> 0]

\* timeoutMs > MAXDWORD on the int64 timeoutMs
GtMAXDWORD(x) == x.hi > 65535

(***************************************************************************)
(* posixTimeoutValues, serial_nix.go                                       *)
(***************************************************************************)
\* a variant without the floor of 1 decisecond
posixTimeoutValuesNoFloor(readTimeout) ==
    IF DurPositive(readTimeout)
    THEN LET vt == Div100(NanosecondsDiv1e6(readTimeout))
         IN  [vmin  |-> 0,
              vtime |-> IF LimbGt(vt, 255) THEN 255 ELSE Uint8(vt)]
    ELSE [vmin |-> 1, vtime |-> 0]

\* a variant that rounds the quotient to the nearest decisecond
posixTimeoutValuesNearest(readTimeout) ==
    IF DurPositive(readTimeout)
    THEN LET ms == NanosecondsDiv1e6(readTimeout)
             vt == Div100([hi |-> ms.hi, lo |-> ms.lo + 50])
         IN  [vmin  |-> 0,
              vtime |-> IF LimbLt(vt, 1) THEN 1
                        ELSE IF LimbGt(vt, 255) THEN 255
                        ELSE Uint8(vt)]
    ELSE [vmin |-> 1, vtime |-> 0]

posixTimeoutValues(readTimeout) ==
    IF DurPositive(readTimeout)
    THEN LET vt == Div100(NanosecondsDiv1e6(readTimeout))
         IN  [vmin  |-> 0,
              vtime |-> IF LimbLt(vt, 1) THEN 1
                        ELSE IF LimbGt(vt, 255) THEN 255
                        ELSE Uint8(vt)]
    ELSE [vmin |-> 1, vtime |-> 0]

(***************************************************************************)
(* posixTimeoutValues, the earlier variant kept in serial.go               *)
(***************************************************************************)
\* a variant that rounds to the nearest decisecond
posixTimeoutValuesOldRounding(readTimeout) ==
    IF DurPositive(readTimeout)
    THEN LET ms   == NanosecondsDiv1e6(readTimeout)
             deci == Div100([hi |-> ms.hi, lo |-> ms.lo + 50])
             capd == IF LimbLt(deci, 1) THEN [hi |-> 0, lo |-> 1]
                     ELSE IF LimbGt(deci, 255) THEN [hi |-> 0, lo |-> 255]
                     ELSE deci
         IN  [vmin |-> 0, vtime |-> Uint8(capd)]
    ELSE [vmin |-> 1, vtime |-> 0]

posixTimeoutValuesOld(readTimeout) ==
    IF DurPositive(readTimeout)
    THEN LET deci == Div100(NanosecondsDiv1e6(readTimeout))
             capd == IF LimbLt(deci, 1) THEN [hi |-> 0, lo |-> 1]
                     ELSE IF LimbGt(deci, 255) THEN [hi |-> 0, lo |-> 255]
                     ELSE deci
         IN  [vmin |-> 0, vtime |-> Uint8(capd)]
    ELSE [vmin |-> 1, vtime |-> 0]

(***************************************************************************)
(* setCommTimeouts: the COMMTIMEOUTS structure it fills in                 *)
(***************************************************************************)
\* a variant without the cap at MAXDWORD
commTimeoutsNoCap(readTimeout) ==
    IF DurPositive(readTimeout)
    THEN LET timeoutMs == NanosecondsDiv1e6(readTimeout)
             capd == IF LimbLt(timeoutMs, 1) THEN [hi |-> 0, lo |-> 1]
                     ELSE timeoutMs
         IN  [ReadIntervalTimeout         |-> DwordZero,
              ReadTotalTimeoutMultiplier  |-> DwordZero,
              ReadTotalTimeoutConstant    |-> Uint32(capd),
              WriteTotalTimeoutMultiplier |-> DwordZero,
              WriteTotalTimeoutConstant   |-> DwordZero]
    ELSE [ReadIntervalTimeout         |-> MAXDWORD,
          ReadTotalTimeoutMultiplier  |-> MAXDWORD,
          ReadTotalTimeoutConstant    |-> MAXDWORDm1,
          WriteTotalTimeoutMultiplier |-> DwordZero,
          WriteTotalTimeoutConstant   |-> DwordZero]

commTimeouts(readTimeout) ==
    IF DurPositive(readTimeout)
    THEN LET timeoutMs == NanosecondsDiv1e6(readTimeout)
             capd == IF LimbLt(timeoutMs, 1) THEN [hi |-> 0, lo |-> 1]
                     ELSE IF GtMAXDWORD(timeoutMs) THEN MAXDWORD
                     ELSE timeoutMs
         IN  [ReadIntervalTimeout         |-> DwordZero,
              ReadTotalTimeoutMultiplier  |-> DwordZero,
              ReadTotalTimeoutConstant    |-> Uint32(capd),
              WriteTotalTimeoutMultiplier |-> DwordZero,
              WriteTotalTimeoutConstant   |-> DwordZero]
    ELSE [ReadIntervalTimeout         |-> MAXDWORD,
          ReadTotalTimeoutMultiplier  |-> MAXDWORD,
          ReadTotalTimeoutConstant    |-> MAXDWORDm1,
          WriteTotalTimeoutMultiplier |-> DwordZero,
          WriteTotalTimeoutConstant   |-> DwordZero]

(***************************************************************************)
(* The trace logger (serial.go): logger, logTag, logBuf and logPtr, and    *)
(* the sink the *log.Logger writes to.  A logger state is the record       *)
(* [logger, logTag, logBuf, logPtr, sink, sinkFd, glyph]; logger is FALSE  *)
(* for a nil *log.Logger; logBuf is the whole array, indexed from 1 here;  *)
(* sink is the sequence of lines written so far, sinkFd how often the file *)
(* the logger writes to was opened and closed; glyph names the function    *)
(* that logFlush takes the runes of the ASCII column from.  There are      *)
(* three loggers in the sources: that of the earlier Port (serial.go       *)
(* 116-170: 64 bytes, rune(b)), the BasePort of unnamed/part_000 (64       *)
(* bytes, AsciiToUnicode) and the BasePort of serial.go (128 bytes,        *)
(* utils.CharToRune).                                                      *)
(***************************************************************************)
\* logBuf [128]byte
LogCap == 128

\* the row length of logFlush (i%16)
RowLen == 16

\* the runes Read and Write tag their data with, and the blank of logFlush
TagRead == 43

TagWrite == 45

TagBlank == 32

\* logBuf [64]byte of the BasePort in unnamed/part_000
LogCapOld == 64

\* a Port as new(Port) leaves it, with a logBuf of cap bytes
NewLogCap(cap, glyph) ==
    [logger |-> FALSE, logTag |-> 0, logBuf |-> [i \in 1 .. cap |-> 0],
     logPtr |-> 0, sink |-> <<>>, sinkFd |-> [opens |-> 0, closes |-> 0],
     glyph |-> glyph]

\* the BasePort of serial.go
NewLog == NewLogCap(LogCap, "CharToRune")

\* the BasePort of unnamed/part_000
NewLogUnnamed == NewLogCap(LogCapOld, "AsciiToUnicode")

\* the rune of 'А', U+0410
CyrillicA == 1040

\* AsciiToUnicode (unnamed/part_000): the bytes 0xC0 .. 0xDF, and 0xE0 ..
\* 0xFF alike, are the Cyrillic capitals from 'А' on; any other byte is its
\* own rune
AsciiToUnicode(b) == IF b >= 192 THEN CyrillicA + ((b - 192) % 32) ELSE b

\* utils.CharToRune.  The package utils is not among the sources; what is
\* known of it is the description of the display remapping: a byte below
\* 0x80 is rendered literally, a byte from 0x80 on through a static table
\* of glyphs.  The entry of the table for byte b is written 1114112 + b, a
\* value past the last rune, which says which entry it is and not which
\* rune the entry holds.
CharToRune(b) == IF b < 128 THEN b ELSE 1114112 + b

\* the ASCII column: '.' below 0x20, and otherwise the rune of the byte as
\* the logger at hand takes it
AscRune(glyph, b) ==
    IF b < 32 THEN 46
    ELSE CASE glyph = "rune"           -> b
           [] glyph = "AsciiToUnicode" -> AsciiToUnicode(b)
           [] glyph = "CharToRune"     -> CharToRune(b)

\* a row as printed: the tag, the hex column (bytes) and the ASCII column
\* (asc), the two columns being what the two string builders hold
Row(tag, bytes, asc, padded) ==
    [kind |-> "row", tag |-> "", rune |-> tag, msg |-> "", args |-> <<>>,
     bytes |-> bytes, asc |-> asc, padded |-> padded]

\* the row of a logFlush that nothing disturbs: both columns come of the
\* same bytes
RowLine(glyph, tag, bytes, padded) ==
    Row(tag, bytes, [i \in 1 .. Len(bytes) |-> AscRune(glyph, bytes[i])], padded)

MsgLine(tag, msg, args) ==
    [kind |-> "msg", tag |-> tag, rune |-> 0, msg |-> msg, args |-> args,
     bytes |-> <<>>, asc |-> <<>>, padded |-> FALSE]

\* The loop of logFlush over logBuf[0 .. logPtr-1]: hex is what the string
\* builders hold (hex.Cap() > 0 exactly when something was written since the
\* last Reset), out the lines printed so far.
\* the body of the loop for index i: st is [hex, out]
flushStep(glyph, tag, buf, i, st) ==
    LET emit == (i % RowLen = 0) /\ Len(st.hex) > 0
        out1 == IF emit THEN Append(st.out, RowLine(glyph, tag, st.hex, FALSE))
                ELSE st.out
        hex1 == IF emit THEN <<>> ELSE st.hex
    IN  [hex |-> Append(hex1, buf[i + 1]), out |-> out1]

\* the loop body for i, ..., j in turn (the range is halved, and the first
\* half evaluated before the second is entered, to keep the evaluation
\* shallow; the order is kept)
RECURSIVE flushRange(_, _, _, _, _, _)
flushRange(glyph, tag, buf, i, j, st) ==
    IF i > j THEN st
    ELSE IF i = j THEN flushStep(glyph, tag, buf, i, st)
    ELSE LET m    == (i + j) \div 2
             left == flushRange(glyph, tag, buf, i, m, st)
         IN  IF Len(left.out) >= 0 THEN flushRange(glyph, tag, buf, m + 1, j, left)
             ELSE left

flushLoop(glyph, tag, buf, n, i, hex, out) ==
    LET st == flushRange(glyph, tag, buf, i, n - 1, [hex |-> hex, out |-> out])
    IN  IF Len(st.hex) > 0 THEN Append(st.out, RowLine(glyph, tag, st.hex, TRUE))
        ELSE st.out

\* a variant that prints a row for an empty buffer too
logFlushPrintsEmpty(l) ==
    IF l.logger
    THEN LET tag == IF l.logTag = 0 THEN TagBlank ELSE l.logTag
         IN  [l EXCEPT !.sink = @ \o (IF l.logPtr > 0
                                       THEN flushLoop(l.glyph, tag, l.logBuf, l.logPtr,
                                                      0, <<>>, <<>>)
                                       ELSE <<RowLine(l.glyph, tag, <<>>, TRUE)>>),
                       !.logPtr = 0]
    ELSE [l EXCEPT !.logPtr = 0]

\* logFlush, run with no other goroutine in the logger
logFlush(l) ==
    IF l.logger /\ l.logPtr > 0
    THEN LET tag == IF l.logTag = 0 THEN TagBlank ELSE l.logTag
         IN  [l EXCEPT !.sink = @ \o flushLoop(l.glyph, tag, l.logBuf, l.logPtr,
                                               0, <<>>, <<>>),
                       !.logPtr = 0]
    ELSE [l EXCEPT !.logPtr = 0]

\* a variant that prints the message without flushing first
logMsgNoFlush(l, tag, msg, args) ==
    IF ~l.logger
    THEN l
    ELSE [l EXCEPT !.sink = Append(@, MsgLine(tag, msg, args))]

\* logMsg, run with no other goroutine in the logger
logMsg(l, tag, msg, args) ==
    IF ~l.logger
    THEN l
    ELSE [logFlush(l) EXCEPT !.sink = Append(@, MsgLine(tag, msg, args))]

\* a variant of the loop body without the test for a full buffer
logDataStepNoFull(l, b) ==
    [l EXCEPT !.logBuf = [i \in 1 .. Len(@) |-> IF i = l.logPtr + 1 THEN b ELSE @[i]],
              !.logPtr = @ + 1]

\* the body of the loop of logData for one byte b
logDataStep(l, b) ==
    LET l1 == IF l.logPtr >= Len(l.logBuf) THEN logFlush(l) ELSE l
    IN  [l1 EXCEPT !.logBuf[l1.logPtr + 1] = b, !.logPtr = @ + 1]

\* the loop body applied to data[i], ..., data[j] in turn (the range is
\* halved, and the first half evaluated before the second is entered, to
\* keep the evaluation shallow; the order of the bytes is kept)
RECURSIVE logDataRange(_, _, _, _)
logDataRange(l, data, i, j) ==
    IF i > j THEN l
    ELSE IF i = j THEN logDataStep(l, data[i])
    ELSE LET m    == (i + j) \div 2
             left == logDataRange(l, data, i, m)
         IN  IF left.logPtr >= 0 THEN logDataRange(left, data, m + 1, j) ELSE left

\* the loop of logData over data[i ..]
logDataLoop(l, data, i) == logDataRange(l, data, i, Len(data))

\* a variant that flushes at the start of every call
logDataFlushEach(l, tag, data) ==
    IF ~l.logger
    THEN l
    ELSE logDataLoop([logFlush(l) EXCEPT !.logTag = tag], data, 1)

\* a variant that keeps the buffered bytes when the tag changes
logDataNoTagFlush(l, tag, data) ==
    IF ~l.logger
    THEN l
    ELSE logDataLoop([l EXCEPT !.logTag = tag], data, 1)

\* a variant that sets the new tag before it flushes the bytes of the old
logDataTagFirst(l, tag, data) ==
    IF ~l.logger
    THEN l
    ELSE LET l1 == IF tag # l.logTag
                   THEN logFlush([l EXCEPT !.logTag = tag])
                   ELSE l
         IN  logDataLoop(l1, data, 1)

\* a variant without the test for a nil logger
logDataNoNilTest(l, tag, data) ==
    LET l1 == IF tag # l.logTag THEN [logFlush(l) EXCEPT !.logTag = tag] ELSE l
    IN  logDataLoop(l1, data, 1)

\* logData, run with no other goroutine in the logger
logData(l, tag, data) ==
    IF ~l.logger
    THEN l
    ELSE LET l1 == IF tag # l.logTag
                   THEN [logFlush(l) EXCEPT !.logTag = tag]
                   ELSE l
         IN  logDataLoop(l1, data, 1)

\* a variant that attaches the logger whether or not the file was opened
openLogAlwaysAttaches(l, ok) ==
    [l |-> [l EXCEPT !.logger = TRUE], err |-> IF ok THEN "nil" ELSE "ENOENT"]

\* openLog: os.OpenFile of the log file, and the logger attached on success
openLog(l, ok) ==
    IF ok THEN [l |-> [l EXCEPT !.logger = TRUE, !.sinkFd.opens = @ + 1], err |-> "nil"]
    ELSE [l |-> l, err |-> "ENOENT"]

(***************************************************************************)
(* The logger statement by statement.  The logger has no lock, and the     *)
(* calls that use it run in several goroutines, so its statements          *)
(* interleave.  A step holds one access to a field the goroutines share:   *)
(* p.logBuf[p.logPtr] = data[i] is two steps, the load of p.logPtr and the *)
(* store of the byte; p.logPtr++ is two, the load and the store; the       *)
(* logFlush of the earlier builds reads p.logBuf[i] twice, for the hex     *)
(* column and for the ASCII column, in two steps, that of BasePort once; a *)
(* Printf is one step (log.Logger locks itself).  The frame of a goroutine *)
(* inside the logger is the record k:                                      *)
(*   pc         the statement it is at,                                    *)
(*   todo       the statements to go on with when the function it is in    *)
(*              returns,                                                   *)
(*   tag, data  the arguments of logData, data being data[i:],             *)
(*   msg        the line logMsg prints,                                    *)
(*   ftag, i, hex, asc   the locals tag, i, hex and asc of logFlush (hex:  *)
(*              the bytes written to the builder since the last Reset,     *)
(*              asc: the runes),                                           *)
(*   ptr        the value of p.logPtr the statement at hand has loaded,    *)
(*   lines      the lines the call has printed,                            *)
(*   req        what the call asked of the logger.                         *)
(* An index out of range is a run-time panic: pc "panic".                  *)
(***************************************************************************)
NoLine == MsgLine("", "", <<>>)

\* the statements of logData, logFlush and logMsg
LogPcs ==
    {"tagtest", "settag", "full", "index", "store", "incload", "incstore",
     "ftest", "ftag", "fcond", "fprint", "fbyte", "fasc", "fexit", "fend",
     "print"}

\* the function at hand returns: on with the caller's next statement
leave(k) ==
    IF k.todo = <<>> THEN [k EXCEPT !.pc = "done"]
    ELSE [k EXCEPT !.pc = Head(k.todo), !.todo = Tail(k.todo)]

\* for i := 0; i < len(data); i++ of logData
dataLoop(k) ==
    IF k.data = <<>> THEN leave([k EXCEPT !.tag = 0]) ELSE [k EXCEPT !.pc = "full"]

\* p.logFlush() is called, to go on at statement next afterwards
enterFlush(k, next) == [k EXCEPT !.pc = "ftest", !.todo = <<next>> \o @]

\* the value p.logPtr++ stores, having loaded ptr
increment(ptr) == ptr + 1

\* a line goes to the sink
printed(l, k, line) ==
    [l |-> [l EXCEPT !.sink = Append(@, line)],
     k |-> [k EXCEPT !.lines = Append(@, line)]]

\* one statement of the goroutine with frame k, on the logger state l
logStep(l, k) ==
    CASE k.pc = "tagtest" ->
           \* if tag != p.logTag
           [l |-> l,
            k |-> IF k.tag # l.logTag THEN enterFlush(k, "settag") ELSE dataLoop(k)]
      [] k.pc = "settag" ->
           \* p.logTag = tag
           [l |-> [l EXCEPT !.logTag = k.tag], k |-> dataLoop(k)]
      [] k.pc = "full" ->
           \* if p.logPtr >= len(p.logBuf)
           [l |-> l,
            k |-> IF l.logPtr >= Len(l.logBuf) THEN enterFlush(k, "index")
                  ELSE [k EXCEPT !.pc = "index"]]
      [] k.pc = "index" ->
           \* p.logBuf[p.logPtr] = data[i], the load of the index p.logPtr
           [l |-> l, k |-> [k EXCEPT !.pc = "store", !.ptr = l.logPtr]]
      [] k.pc = "store" ->
           \* p.logBuf[p.logPtr] = data[i], the store at the index loaded
           IF k.ptr >= Len(l.logBuf)
           THEN [l |-> l, k |-> [k EXCEPT !.pc = "panic"]]
           ELSE [l |-> [l EXCEPT !.logBuf[k.ptr + 1] = Head(k.data)],
                 k |-> [k EXCEPT !.pc = "incload", !.ptr = 0]]
      [] k.pc = "incload" ->
           \* p.logPtr++, the load
           [l |-> l, k |-> [k EXCEPT !.pc = "incstore", !.ptr = l.logPtr]]
      [] k.pc = "incstore" ->
           \* p.logPtr++, the store; then i++
           [l |-> [l EXCEPT !.logPtr = increment(k.ptr)],
            k |-> dataLoop([k EXCEPT !.ptr = 0, !.data = Tail(@)])]
      [] k.pc = "ftest" ->
           \* if p.logger != nil && p.logPtr > 0
           [l |-> l,
            k |-> [k EXCEPT !.pc = IF l.logger /\ l.logPtr > 0 THEN "ftag" ELSE "fend"]]
      [] k.pc = "ftag" ->
           \* tag := p.logTag; if tag == 0 { tag = ' ' }; i := 0
           [l |-> l,
            k |-> [k EXCEPT !.pc = "fcond", !.i = 0, !.hex = <<>>, !.asc = <<>>,
                            !.ftag = IF l.logTag = 0 THEN TagBlank ELSE l.logTag]]
      [] k.pc = "fcond" ->
           \* i < p.logPtr, then i%16 == 0 && hex.Cap() > 0; after the loop
           \* if hex.Cap() > 0
           [l |-> l,
            k |-> [k EXCEPT !.pc = IF k.i < l.logPtr
                                   THEN IF k.i % RowLen = 0 /\ k.hex # <<>>
                                        THEN "fprint" ELSE "fbyte"
                                   ELSE IF k.hex # <<>> THEN "fexit" ELSE "fend"]]
      [] k.pc = "fprint" ->
           \* p.logger.Printf("%c %s %s", ...); hex.Reset(); asc.Reset()
           LET s == printed(l, k, Row(k.ftag, k.hex, k.asc, FALSE))
           IN  [l |-> s.l,
                k |-> [s.k EXCEPT !.pc = "fbyte", !.hex = <<>>, !.asc = <<>>]]
      [] k.pc = "fbyte" ->
           \* BasePort: b := p.logBuf[i], the two writes to the builders, and
           \* i++.  The earlier builds: hex.WriteString(... p.logBuf[i]), the
           \* first of their two reads of p.logBuf[i]
           IF k.i >= Len(l.logBuf)
           THEN [l |-> l, k |-> [k EXCEPT !.pc = "panic"]]
           ELSE IF l.glyph = "rune"
           THEN [l |-> l,
                 k |-> [k EXCEPT !.pc = "fasc",
                                 !.hex = Append(@, l.logBuf[k.i + 1])]]
           ELSE [l |-> l,
                 k |-> [k EXCEPT !.pc = "fcond", !.i = @ + 1,
                                 !.hex = Append(@, l.logBuf[k.i + 1]),
                                 !.asc = Append(@, AscRune(l.glyph,
                                                           l.logBuf[k.i + 1]))]]
      [] k.pc = "fasc" ->
           \* the earlier builds: c := rune(p.logBuf[i]), the second read,
           \* asc.WriteRune(c), and i++
           [l |-> l,
            k |-> [k EXCEPT !.pc = "fcond", !.i = @ + 1,
                            !.asc = Append(@, AscRune(l.glyph,
                                                      l.logBuf[k.i + 1]))]]
      [] k.pc = "fexit" ->
           \* p.logger.Printf("%c %-48s %s", ...)
           LET s == printed(l, k, Row(k.ftag, k.hex, k.asc, TRUE))
           IN  [l |-> s.l,
                k |-> [s.k EXCEPT !.pc = "fend", !.hex = <<>>, !.asc = <<>>]]
      [] k.pc = "fend" ->
           \* p.logPtr = 0
           [l |-> [l EXCEPT !.logPtr = 0],
            k |-> leave([k EXCEPT !.ftag = 0, !.i = 0, !.hex = <<>>,
                                  !.asc = <<>>])]
      [] k.pc = "print" ->
           \* p.logger.Printf(msg, arg...)
           LET s == printed(l, k, k.msg)
           IN  [l |-> s.l, k |-> leave([s.k EXCEPT !.msg = NoLine])]

(***************************************************************************)
(* What a call of the package asks of the logger: nothing, logMsg,         *)
(* logData, or the logFlush and logMsg of BasePort.Close.                  *)
(***************************************************************************)
NoLog ==
    [kind |-> "none", tag |-> "", msg |-> "", args |-> <<>>, rune |-> 0,
     data |-> <<>>]

\* p.logMsg(tag, msg, args...)
CallLogMsg(tag, msg, args) ==
    [NoLog EXCEPT !.kind = "msg", !.tag = tag, !.msg = msg, !.args = args]

\* p.logData(rune, data)
CallLogData(rune, data) == [NoLog EXCEPT !.kind = "data", !.rune = rune, !.data = data]

\* p.logFlush(); p.logMsg(tag, msg)
CallFlushLogMsg(tag, msg) == [NoLog EXCEPT !.kind = "flushmsg", !.tag = tag, !.msg = msg]

\* the request run with no other goroutine in the logger
logCall(l, q) ==
    CASE q.kind = "none"     -> l
      [] q.kind = "msg"      -> logMsg(l, q.tag, q.msg, q.args)
      [] q.kind = "data"     -> logData(l, q.rune, q.data)
      [] q.kind = "flushmsg" -> logMsg(logFlush(l), q.tag, q.msg, q.args)

\* The request begins in frame k, rest being what the call does after it:
\* logMsg and logData return at once without a logger, logFlush goes as far
\* as its last statement.
logStart(k, logger, q, rest) ==
    LET f == [k EXCEPT !.req = q]
    IN  CASE q.kind = "none" -> leave([f EXCEPT !.todo = rest])
          [] q.kind = "msg" ->
               IF logger
               THEN [f EXCEPT !.pc = "ftest", !.todo = <<"print">> \o rest,
                              !.msg = MsgLine(q.tag, q.msg, q.args)]
               ELSE leave([f EXCEPT !.todo = rest])
          [] q.kind = "data" ->
               IF logger
               THEN [f EXCEPT !.pc = "tagtest", !.todo = rest, !.tag = q.rune,
                              !.data = q.data]
               ELSE leave([f EXCEPT !.todo = rest])
          [] q.kind = "flushmsg" ->
               IF logger
               THEN [f EXCEPT !.pc = "ftest", !.todo = <<"ftest", "print">> \o rest,
                              !.msg = MsgLine(q.tag, q.msg, q.args)]
               ELSE [f EXCEPT !.pc = "ftest", !.todo = rest]

(***************************************************************************)
(* openPort of each backend.  The device and the system calls are the      *)
(* environment: fail names the first step that fails ("none": every step   *)
(* succeeds).  The result is the record                                    *)
(*   [p, err]       the values returned (p: a non-nil *Port),              *)
(*   opens, closes  how often the device descriptor was opened and closed, *)
(*   events         how many completion events were created,               *)
(*   released       how many of them were released again: no openPort,     *)
(*                  and neither its deferred function, closes the handle   *)
(*                  of an event that newOverlapped created,                *)
(*   set            whether the timeout parameters were installed.         *)
(***************************************************************************)
LinuxBauds ==
    {50, 75, 110, 134, 150, 200, 300, 600, 1200, 1800, 2400, 4800, 9600,
     19200, 38400, 57600, 115200, 230400, 460800, 500000, 576000, 921600,
     1000000, 1152000, 1500000, 2000000, 2500000, 3000000, 3500000, 4000000}

CgoBauds == {115200, 57600, 38400, 19200, 9600, 4800, 2400}

OpenResult(p, err, opens, closes, events, set) ==
    [p |-> p, err |-> err, opens |-> opens, closes |-> closes,
     events |-> events, released |-> 0, set |-> set]

\* a variant of openPort without the deferred close
deferredCloseMissing(r) == r

\* The deferred function of openPort (serial_linux.go, and the same in the
\* Windows openPort): if err != nil [&& f != nil] { f.Close() }.
\* r is the result as the return statement leaves it.
deferredClose(r) ==
    IF r.err # "nil" /\ r.opens > 0
    THEN [r EXCEPT !.closes = @ + 1]
    ELSE r

\* serial_linux.go
openPortLinux(c, fail) ==
    IF c.Baud \notin LinuxBauds
    THEN OpenResult(FALSE, "Invalid baud rate", 0, 0, 0, FALSE)
    ELSE IF fail = "OpenFile"
    THEN OpenResult(FALSE, "ENOENT", 0, 0, 0, FALSE)
    ELSE deferredClose(
        IF fail = "TCGETS" THEN OpenResult(FALSE, "errno", 1, 0, 0, FALSE)
        ELSE IF fail = "TCSETS" THEN OpenResult(FALSE, "errno", 1, 0, 0, FALSE)
        ELSE IF fail = "SetNonblock" THEN OpenResult(FALSE, "errno", 1, 0, 0, TRUE)
        ELSE OpenResult(TRUE, "nil", 1, 0, 0, TRUE))

\* the earlier Linux openPort kept in serial_windows.go: an unknown baud
\* rate leaves through a bare return, with p and err both nil
openPortLinuxOld(c, fail) ==
    IF c.Baud \notin LinuxBauds
    THEN OpenResult(FALSE, "nil", 0, 0, 0, FALSE)
    ELSE IF fail = "OpenFile"
    THEN OpenResult(FALSE, "ENOENT", 0, 0, 0, FALSE)
    ELSE deferredClose(
        IF fail = "TCSETS" THEN OpenResult(FALSE, "errno", 1, 0, 0, FALSE)
        ELSE IF fail = "SetNonblock" THEN OpenResult(FALSE, "errno", 1, 0, 0, TRUE)
        ELSE OpenResult(TRUE, "nil", 1, 0, 0, TRUE))

\* the cgo openPort: the device is opened first, and every failing step
\* closes it itself before it returns
openPortCgo(c, fail) ==
    IF fail = "OpenFile" THEN OpenResult(FALSE, "ENOENT", 0, 0, 0, FALSE)
    ELSE IF fail = "isatty" THEN OpenResult(FALSE, "File is not a tty", 1, 1, 0, FALSE)
    ELSE IF fail = "tcgetattr" THEN OpenResult(FALSE, "errno", 1, 1, 0, FALSE)
    ELSE IF c.Baud \notin CgoBauds
    THEN OpenResult(FALSE, "Invalid baud rate", 1, 1, 0, FALSE)
    ELSE IF fail = "cfsetispeed" THEN OpenResult(FALSE, "errno", 1, 1, 0, FALSE)
    ELSE IF fail = "cfsetospeed" THEN OpenResult(FALSE, "errno", 1, 1, 0, FALSE)
    ELSE IF fail = "tcsetattr" THEN OpenResult(FALSE, "errno", 1, 1, 0, FALSE)
    ELSE IF fail = "fcntl" THEN OpenResult(FALSE, "Clear NONBLOCK", 1, 1, 0, TRUE)
    ELSE OpenResult(TRUE, "nil", 1, 0, 0, TRUE)

\* The Windows openPort after CreateFile has succeeded (the part the
\* deferred close covers); the baud rate goes to SetCommState unchecked.
openPortWinSteps(fail) ==
    deferredClose(
        IF fail = "SetCommState" THEN OpenResult(FALSE, "errno", 1, 0, 0, FALSE)
        ELSE IF fail = "SetupComm" THEN OpenResult(FALSE, "errno", 1, 0, 0, FALSE)
        ELSE IF fail = "SetCommTimeouts" THEN OpenResult(FALSE, "errno", 1, 0, 0, FALSE)
        ELSE IF fail = "SetCommMask" THEN OpenResult(FALSE, "errno", 1, 0, 0, TRUE)
        ELSE IF fail = "CreateEventR" THEN OpenResult(FALSE, "errno", 1, 0, 0, TRUE)
        ELSE IF fail = "CreateEventW" THEN OpenResult(FALSE, "errno", 1, 0, 1, TRUE)
        ELSE OpenResult(TRUE, "nil", 1, 0, 2, TRUE))

openPortWin(c, fail) ==
    IF fail = "UTF16PtrFromString" THEN OpenResult(FALSE, "EINVAL", 0, 0, 0, FALSE)
    ELSE IF fail = "CreateFile" THEN OpenResult(FALSE, "errno", 0, 0, 0, FALSE)
    ELSE openPortWinSteps(fail)

\* the earlier Windows openPort kept in serial_windows.go
openPortWinOld(c, fail) ==
    IF fail = "CreateFile" THEN OpenResult(FALSE, "errno", 0, 0, 0, FALSE)
    ELSE openPortWinSteps(fail)

Backends == {"linux", "linuxOld", "cgo", "win", "winOld"}

IsWin(b) == b \in {"win", "winOld"}

\* the logger fields of a new Port: logBuf is [128]byte in the BasePort of
\* serial.go, [64]byte in the Port of the earlier builds
NewPortLog(b) ==
    IF b \in {"linux", "win"} THEN NewLog ELSE NewLogCap(LogCapOld, "rune")

\* the steps of each openPort that the environment can fail
OpenSteps(b) ==
    CASE b = "linux"    -> {"OpenFile", "TCGETS", "TCSETS", "SetNonblock"}
      [] b = "linuxOld" -> {"OpenFile", "TCSETS", "SetNonblock"}
      [] b = "cgo"      -> {"OpenFile", "isatty", "tcgetattr", "cfsetispeed",
                            "cfsetospeed", "tcsetattr", "fcntl"}
      [] b = "win"      -> {"UTF16PtrFromString", "CreateFile", "SetCommState",
                            "SetupComm", "SetCommTimeouts", "SetCommMask",
                            "CreateEventR", "CreateEventW"}
      [] b = "winOld"   -> {"CreateFile", "SetCommState", "SetupComm",
                            "SetCommTimeouts", "SetCommMask", "CreateEventR",
                            "CreateEventW"}

openPort(b, c, fail) ==
    CASE b = "linux"    -> openPortLinux(c, fail)
      [] b = "linuxOld" -> openPortLinuxOld(c, fail)
      [] b = "cgo"      -> openPortCgo(c, fail)
      [] b = "win"      -> openPortWin(c, fail)
      [] b = "winOld"   -> openPortWinOld(c, fail)

\* OpenPort (serial.go): openPort, then the log file when one is named.
\* logOk: whether the log file can be opened.
OpenPortCall(b, c, fail, logOk) ==
    LET r == openPort(b, c, fail)
    IN  IF r.p /\ r.err = "nil" /\ c.LogFile # ""
        THEN LET o == openLog(NewPortLog(b), logOk)
             IN  [r |-> [r EXCEPT !.err = o.err],
                  l |-> logMsg(o.l, "Open", c.Name, <<>>)]
        ELSE [r |-> r, l |-> NewPortLog(b)]

(***************************************************************************)
(* The calls on an open Port.  The device is the environment: each call    *)
(* takes the outcome dev of its system call.  What a call makes of it is   *)
(* the record [n, err, log, buf, waited, flags]: the values it returns     *)
(* (err "nil" for a nil error), what it asks of the logger before it       *)
(* returns, the caller's buffer, and whether the call got as far as        *)
(* waiting on the device.                                                  *)
(***************************************************************************)
FdValid(f) == f.opens > f.closes

BoolStr(v) == IF v THEN "true" ELSE "false"

\* a caller's read buffer before the call, the bytes the device delivers,
\* and the bytes a caller writes
Zeros(len) == [i \in 1 .. len |-> 0]

Filled(buf, k) == [i \in 1 .. Len(buf) |-> IF i <= k THEN 96 + i ELSE buf[i]]

CallerBytes(len) == [i \in 1 .. len |-> 64 + i]

Result(n, err, log, buf, waited) ==
    [n |-> n, err |-> err, log |-> log, buf |-> buf, waited |-> waited,
     flags |-> <<>>]

\* os.File.Read: a closed file fails at once; an empty buffer reads nothing;
\* a read(2) of zero bytes (end of file, or VTIME expired) is io.EOF
fileRead(valid, buf, dev) ==
    IF ~valid THEN [n |-> 0, err |-> "ErrClosed", buf |-> buf, waited |-> FALSE]
    ELSE IF Len(buf) = 0 THEN [n |-> 0, err |-> "nil", buf |-> buf, waited |-> FALSE]
    ELSE IF dev.kind = "data"
    THEN [n |-> dev.k, err |-> "nil", buf |-> Filled(buf, dev.k), waited |-> TRUE]
    ELSE IF dev.kind \in {"eof", "timeout"}
    THEN [n |-> 0, err |-> "EOF", buf |-> buf, waited |-> TRUE]
    ELSE [n |-> 0, err |-> "EIO", buf |-> buf, waited |-> TRUE]

ReadDevs(len) ==
    {[kind |-> "data", k |-> k] : k \in 1 .. len}
    \cup {[kind |-> x, k |-> 0] : x \in {"eof", "timeout", "fail"}}

\* os.File.Read and os.File.Write go to the device, and wait there, with a
\* file that is open and a buffer that is not empty
fileBlocks(valid, buf) == valid /\ Len(buf) > 0

\* a variant of Read that treats io.EOF as any other error
portReadNixEofIsError(valid, buf, dev) ==
    LET r == fileRead(valid, buf, dev)
    IN  IF r.err # "nil"
        THEN Result(0, r.err, CallLogMsg("Read", "Error %d", <<r.err>>), r.buf, r.waited)
        ELSE IF r.n > 0
        THEN Result(r.n, "nil", CallLogData(TagRead, r.buf), r.buf, r.waited)
        ELSE Result(0, "nil", NoLog, r.buf, r.waited)

\* Port.Read, serial_nix.go
portReadNix(valid, buf, dev) ==
    LET r == fileRead(valid, buf, dev)
    IN  IF r.err # "nil" /\ r.err # "EOF"
        THEN Result(0, r.err, CallLogMsg("Read", "Error %d", <<r.err>>), r.buf, r.waited)
        ELSE IF r.n > 0
        THEN Result(r.n, "nil", CallLogData(TagRead, r.buf), r.buf, r.waited)
        ELSE Result(0, "nil", NoLog, r.buf, r.waited)

\* Port.Read of the earlier Linux build and of the cgo build: return n, err
portReadOld(valid, buf, dev) ==
    LET r == fileRead(valid, buf, dev)
    IN  IF r.err # "nil" /\ r.err # "EOF"
        THEN Result(r.n, r.err, CallLogMsg("Read", "Error %d", <<r.err>>), r.buf, r.waited)
        ELSE IF r.n > 0
        THEN Result(r.n, "nil", CallLogData(TagRead, r.buf), r.buf, r.waited)
        ELSE Result(0, "nil", NoLog, r.buf, r.waited)

portRead(b, valid, buf, dev) ==
    IF b = "linux" THEN portReadNix(valid, buf, dev) ELSE portReadOld(valid, buf, dev)

\* os.File.Write: everything is written, or k bytes and an error
fileWrite(valid, buf, dev) ==
    IF ~valid THEN [n |-> 0, err |-> "ErrClosed", waited |-> FALSE]
    ELSE IF Len(buf) = 0 THEN [n |-> 0, err |-> "nil", waited |-> FALSE]
    ELSE IF dev.kind = "ok" THEN [n |-> Len(buf), err |-> "nil", waited |-> TRUE]
    ELSE [n |-> dev.k, err |-> "EIO", waited |-> TRUE]

WriteDevs(len) ==
    {[kind |-> "ok", k |-> len]} \cup {[kind |-> "fail", k |-> k] : k \in 0 .. len - 1}

\* Port.Write of the POSIX builds
portWrite(valid, buf, dev) ==
    LET r == fileWrite(valid, buf, dev)
    IN  IF r.err # "nil"
        THEN Result(r.n, r.err, CallLogMsg("Write", r.err, <<>>), buf, r.waited)
        ELSE IF r.n > 0
        THEN Result(r.n, "nil", CallLogData(TagWrite, buf), buf, r.waited)
        ELSE Result(r.n, "nil", NoLog, buf, r.waited)

\* the Errno of a system call on the descriptor: "0" for success; a closed
\* descriptor (Fd() of a closed file, a closed handle) is refused
Errno(valid, ok) == IF ~valid THEN "EBADF" ELSE IF ok THEN "0" ELSE "EIO"

\* a syscall.Errno returned as an error: the interface is non-nil whatever
\* the number
ErrnoAsError(e) == IF e = "0" THEN "Errno(0)" ELSE e

\* Port.Flush, serial_linux.go: return err, err being the Errno
flushLinux(valid, ok) ==
    Result(0, ErrnoAsError(Errno(valid, ok)), NoLog, <<>>, FALSE)

\* Port.Flush of the earlier Linux build and of the cgo build
flushOld(valid, ok) ==
    LET e == Errno(valid, ok)
    IN  IF e # "0"
        THEN Result(0, e, CallLogMsg("Flush", "Error %d", <<e>>), <<>>, FALSE)
        ELSE Result(0, "nil", NoLog, <<>>, FALSE)

\* Port.Flush of the Windows build: purgeComm, and a message either way
flushWin(valid, ok) ==
    LET e == Errno(valid, ok)
    IN  IF e # "0"
        THEN Result(0, e, CallLogMsg("Flush", "Error %s", <<e>>), <<>>, FALSE)
        ELSE Result(0, "nil", CallLogMsg("Flush", "", <<>>), <<>>, FALSE)

\* Port.Flush of the earlier Windows build
flushWinOld(valid, ok) ==
    LET e == Errno(valid, ok)
    IN  IF e # "0"
        THEN Result(0, e, CallLogMsg("Flush", e, <<>>), <<>>, FALSE)
        ELSE Result(0, "nil", NoLog, <<>>, FALSE)

portFlush(b, valid, ok) ==
    CASE b = "linux"              -> flushLinux(valid, ok)
      [] b \in {"linuxOld", "cgo"} -> flushOld(valid, ok)
      [] b = "win"                -> flushWin(valid, ok)
      [] b = "winOld"             -> flushWinOld(valid, ok)

\* setModemLine of serial_nix.go, and the same in the cgo build
setModemLineNix(tag, v, valid, ok) ==
    LET e == Errno(valid, ok)
    IN  IF e # "0"
        THEN Result(0, e, CallLogMsg(tag, "%t -> error %s [%d]", <<BoolStr(v), e, e>>),
                    <<>>, FALSE)
        ELSE Result(0, "nil", CallLogMsg(tag, "%t", <<BoolStr(v)>>), <<>>, FALSE)

\* setModemLine of the Windows build
setModemLineWin(tag, v, valid, ok) ==
    LET e == Errno(valid, ok)
    IN  IF e # "0"
        THEN Result(0, e, CallLogMsg(tag, "%t -> %s [%d]", <<BoolStr(v), e, e>>),
                    <<>>, FALSE)
        ELSE Result(0, "nil", CallLogMsg(tag, "%t", <<BoolStr(v)>>), <<>>, FALSE)

\* SetDtr and SetRts of the earlier Linux build: both print "SetDtr" / "DTR"
setLineLinuxOld(v, valid, ok) ==
    LET e == Errno(valid, ok)
    IN  IF e # "0"
        THEN Result(0, e, CallLogMsg("SetDtr", "(%t) -> error %d", <<BoolStr(v), e>>),
                    <<>>, FALSE)
        ELSE Result(0, "nil", CallLogMsg("DTR", "%t", <<BoolStr(v)>>), <<>>, FALSE)

\* SetDtrOn / SetDtrOff / SetRtsOn / SetRtsOff of the earlier Windows build
setLineWinOld(tag, v, valid, ok) ==
    LET e == Errno(valid, ok)
    IN  IF e # "0"
        THEN Result(0, e, CallLogMsg(IF tag = "DTR" THEN "SetDtr" ELSE "SetRts",
                                     "Error", <<e>>), <<>>, FALSE)
        ELSE Result(0, "nil", CallLogMsg(tag, IF v THEN "ON" ELSE "OFF", <<>>),
                    <<>>, FALSE)

portSetDtr(b, v, valid, ok) ==
    CASE b \in {"linux", "cgo"} -> setModemLineNix("DTR", v, valid, ok)
      [] b = "linuxOld"         -> setLineLinuxOld(v, valid, ok)
      [] b = "win"              -> setModemLineWin("DTR", v, valid, ok)
      [] b = "winOld"           -> setLineWinOld("DTR", v, valid, ok)

portSetRts(b, v, valid, ok) ==
    CASE b \in {"linux", "cgo"} -> setModemLineNix("RTS", v, valid, ok)
      [] b = "linuxOld"         -> setLineLinuxOld(v, valid, ok)
      [] b = "win"              -> setModemLineWin("RTS", v, valid, ok)
      [] b = "winOld"           -> setLineWinOld("RTS", v, valid, ok)

\* the mask tests of GetCommModemStatus on the status byte
MS_CTS_ON == 16

MS_DSR_ON == 32

MS_RING_ON == 64

MS_RLSD_ON == 128

\* a variant that compares the status byte with the mask
BitSetAtLeast(statusval, mask) == statusval >= mask

\* statusval & mask != 0, for a mask of one bit
BitSet(statusval, mask) == (statusval \div mask) % 2 = 1

\* GetCommModemStatus: flags is <<cts_on, dsr_on, ring_on, rlsd_on>>; the
\* earlier Windows build also prints the flags it read
getCommModemStatus(b, statusval, valid, ok) ==
    LET e == Errno(valid, ok)
    IN  IF e # "0"
        THEN [Result(0, e, NoLog, <<>>, FALSE) EXCEPT
                 !.flags = <<FALSE, FALSE, FALSE, FALSE>>]
        ELSE LET f == <<BitSet(statusval, MS_CTS_ON), BitSet(statusval, MS_DSR_ON),
                        BitSet(statusval, MS_RING_ON), BitSet(statusval, MS_RLSD_ON)>>
                 q == IF b = "winOld"
                      THEN CallLogMsg("GetCommModemStatus",
                                      "CTS:%t DSR:%t RING:%t RLSD:%t",
                                      <<BoolStr(f[1]), BoolStr(f[2]), BoolStr(f[3]),
                                        BoolStr(f[4])>>)
                      ELSE NoLog
             IN  [Result(0, "nil", q, <<>>, FALSE) EXCEPT !.flags = f]

\* os.File.Close: a second Close is refused and closes nothing
fileClose(valid) == IF valid THEN "nil" ELSE "ErrClosed"

\* a variant of Close that leaves the descriptor open
fileCloseKeepsOpen(f) == f

\* what os.File.Close does to the descriptor
fileCloseFd(f) == IF FdValid(f) THEN [f EXCEPT !.closes = @ + 1] ELSE f

\* a variant of Close that neither flushes nor prints
closeBaseSilent == NoLog

\* BasePort.Close (serial.go): logFlush and logMsg, before f.Close
closeBase == CallFlushLogMsg("Close", "")

\* Port.Close of the earlier builds: logMsg, before f.Close
closeOld == CallLogMsg("Close", "", <<>>)

\* what Close asks of the logger before it closes the file
portClose(b) == IF b \in {"linux", "win"} THEN closeBase ELSE closeOld

(***************************************************************************)
(* The Port as a state machine: OpenPort, then calls from Callers, each in *)
(* a goroutine of its own.  A call is a sequence of steps: the system call *)
(* it makes (or, where that waits for the device, the call and its         *)
(* return), the statements of the logger one by one, and the return.  No   *)
(* call but Read and Write of the Windows builds takes a lock, and those   *)
(* take two different ones, so the steps of the calls interleave.          *)
(***************************************************************************)
\* how many callers use the Port concurrently
NumCallers == 2

\* how many calls are made on one Port
MaxCalls == 2

\* the longest buffer handed to Read or Write
MaxBuf == 2

Callers == 1 .. NumCallers

Bauds == {1234, 9600, 230400}

Configs ==
    [Name : {"ttyS0"}, Baud : Bauds, ReadTimeout : {Ms(0), Ms(250)},
     LogFile : {"", "trace.log"}]

\* the Configs of the Ports that calls are made on
PortConfigs ==
    [Name : {"ttyS0"}, Baud : {9600}, ReadTimeout : {Ms(250)},
     LogFile : {"", "trace.log"}]

NoConfig == [Name |-> "", Baud |-> 0, ReadTimeout |-> Ms(0), LogFile |-> ""]

NoReturn == OpenResult(FALSE, "none", 0, 0, 0, FALSE)

NoTimeouts == [fn |-> "none"]

\* an OVERLAPPED structure with its event: pending is Internal =
\* STATUS_PENDING, n is InternalHigh, err the completion status, event
\* whether hEvent is signalled, len the length of the buffer of the
\* operation in flight and owner the caller that issued it
NewOverlapped ==
    [pending |-> FALSE, n |-> 0, err |-> "nil", event |-> FALSE, len |-> 0,
     owner |-> 0]

\* what a call finds when it is made: the trace fields, how many bytes the
\* trace holds (printed or buffered), and the descriptor
NoPre ==
    [logTag |-> 0, logBuf |-> <<>>, logPtr |-> 0, bytes |-> 0,
     fd |-> [opens |-> 0, closes |-> 0]]

\* the call that returned in the step before a call was made
NoPrev == [op |-> "none", dev |-> "none", err |-> "nil", msgs |-> <<>>]

\* A caller: the frame of its goroutine.  pc "idle": not inside a call.
\* Inside one, op, arg, buf and after (Close had returned when the call was
\* made) are the call, n, err, flags, waited and dev what it is going to
\* return and what the device did; the rest is the frame of the logger.
\* alone: no other call has run a statement of the logger since this call
\* was made.
Idle ==
    [pc |-> "idle", op |-> "none", arg |-> "", buf |-> <<>>, after |-> FALSE,
     n |-> 0, err |-> "nil", flags |-> <<>>, waited |-> FALSE, dev |-> "none",
     alone |-> TRUE, pre |-> NoPre, prev |-> NoPrev,
     todo |-> <<>>, tag |-> 0, data |-> <<>>, msg |-> NoLine, ftag |-> 0,
     i |-> 0, hex |-> <<>>, asc |-> <<>>, ptr |-> 0, lines |-> <<>>,
     req |-> NoLog]

NoCall ==
    [op |-> "none", n |-> 0, err |-> "nil", after |-> FALSE, waited |-> FALSE,
     lines |-> <<>>, flags |-> <<>>, dev |-> "none", arg |-> "", buf |-> <<>>,
     who |-> 0, alone |-> TRUE, pre |-> NoPre, prev |-> NoPrev, req |-> NoLog]

PortNew(b) ==
    /\ backend = b
    /\ phase = "new"
    /\ cfg = NoConfig
    /\ ret = NoReturn
    /\ fd = [opens |-> 0, closes |-> 0]
    /\ tmo = NoTimeouts
    /\ lg = NewPortLog(b)
    /\ closed = FALSE
    /\ calls = 0
    /\ call = [c \in Callers |-> Idle]
    /\ rl = 0
    /\ wl = 0
    /\ ov = [r |-> NewOverlapped, w |-> NewOverlapped]
    /\ res = NoCall
    /\ logged = <<>>

Init ==
    /\ tin = Ms(0)
    /\ tfn = "none"
    /\ tout = [fn |-> "none"]
    /\ \E b \in Backends : PortNew(b)

\* the timeout parameters openPort installs
installedTimeouts(b, c) ==
    IF IsWin(b) THEN commTimeouts(c.ReadTimeout)
    ELSE IF b = "linux" THEN posixTimeoutValues(c.ReadTimeout)
    ELSE posixTimeoutValuesOld(c.ReadTimeout)

OpenPortWith(cs) ==
    /\ phase = "new"
    /\ \E c \in cs, fail \in OpenSteps(backend) \cup {"none"}, logOk \in BOOLEAN :
          LET o == OpenPortCall(backend, c, fail, logOk)
          IN  /\ cfg' = c
              /\ ret' = o.r
              /\ fd' = [opens |-> o.r.opens, closes |-> o.r.closes]
              /\ tmo' = IF o.r.set THEN installedTimeouts(backend, c) ELSE NoTimeouts
              /\ lg' = o.l
              /\ phase' = IF o.r.p THEN "open" ELSE "failed"
    /\ res' = NoCall
    /\ UNCHANGED <<tvars, backend, closed, calls, call, rl, wl, ov>>

\* OpenPort with any Config
OpenAny == OpenPortWith(Configs)

OpenPort == OpenPortWith(PortConfigs)

SpecOpen == Init /\ [][OpenAny]_vars

\* the bytes of the data rows among lines, in order
RECURSIVE RowBytes(_)
RowBytes(lines) ==
    IF lines = <<>> THEN <<>>
    ELSE (IF Head(lines).kind = "row" THEN Head(lines).bytes ELSE <<>>)
         \o RowBytes(Tail(lines))

\* how many bytes have been handed to the trace of l: printed or buffered
TraceBytes(l) == Len(RowBytes(l.sink)) + l.logPtr

\* the messages among lines
MsgLines(lines) == SelectSeq(lines, LAMBDA x : x.kind = "msg")

\* a variant in which Lock never waits
lockAlwaysFree(m) == TRUE

\* sync.Mutex.Lock proceeds when the mutex is free
lockFree(m) == m = 0

\* a variant of Unlock that leaves the mutex held
mutexUnlockKeeps(m) == m

\* sync.Mutex.Unlock, deferred by Read and Write: the mutex is free
mutexUnlock(m) == 0

\* a call is made: its frame
NewCall(op, arg, buf) ==
    [Idle EXCEPT !.pc = "called", !.op = op, !.arg = arg, !.buf = buf,
                 !.after = closed,
                 !.pre = [logTag |-> lg.logTag, logBuf |-> lg.logBuf,
                          logPtr |-> lg.logPtr, bytes |-> TraceBytes(lg),
                          fd |-> fd],
                 !.prev = IF op = "Flush" /\ res.op = "Flush"
                          THEN [op |-> res.op, dev |-> res.dev, err |-> res.err,
                                msgs |-> MsgLines(res.lines)]
                          ELSE NoPrev]

\* the system call of the call with frame k has given r, the device having
\* done dev: the values to return are set, and the logger is entered;
\* rest is what the call does after the logger
Taken(k, r, dev, rest) ==
    logStart([k EXCEPT !.n = r.n, !.err = r.err, !.buf = r.buf, !.flags = r.flags,
                       !.waited = r.waited, !.dev = dev],
             lg.logger, r.log, rest)

\* what the caller gets and what the call did, when the call of frame k
\* returns to caller c
Returned(k, c) ==
    [op |-> k.op, n |-> k.n, err |-> k.err, after |-> k.after,
     waited |-> k.waited, lines |-> k.lines, flags |-> k.flags, dev |-> k.dev,
     arg |-> k.arg, buf |-> k.buf, who |-> c, alone |-> k.alone, pre |-> k.pre,
     prev |-> k.prev, req |-> k.req]

\* The step of caller c leaves its frame as k, the other callers as others.
\* With nothing left to do the call returns in the same step, and the
\* deferred Unlock of a Read or Write of the Windows builds frees the lock
\* the caller holds.  A run-time panic unwinds the call, which runs the
\* deferred Unlock too, and ends the program.
Go(c, k, others) ==
    IF k.pc = "done"
    THEN /\ res' = Returned(k, c)
         /\ call' = [others EXCEPT ![c] = Idle]
         /\ rl' = IF rl = c THEN mutexUnlock(rl) ELSE rl
         /\ wl' = IF wl = c THEN mutexUnlock(wl) ELSE wl
         /\ closed' = (closed \/ k.op = "Close")
         /\ phase' = phase
    ELSE IF k.pc = "panic"
    THEN \* a run-time panic unwinds the call: its deferred Unlock runs, and
         \* the program ends
         /\ res' = NoCall
         /\ call' = [others EXCEPT ![c] = k]
         /\ rl' = IF rl = c THEN mutexUnlock(rl) ELSE rl
         /\ wl' = IF wl = c THEN mutexUnlock(wl) ELSE wl
         /\ phase' = "panicked"
         /\ UNCHANGED closed
    ELSE /\ res' = NoCall
         /\ call' = [others EXCEPT ![c] = k]
         /\ UNCHANGED <<rl, wl, closed, phase>>

Running == phase = "open"

CanCall == Running /\ calls < MaxCalls

\* Callers are interchangeable: a new call is made by the lowest caller that
\* is not inside one.
NextCaller(c) ==
    /\ call[c].pc = "idle"
    /\ \A d \in Callers : d < c => call[d].pc # "idle"

\* caller c makes a call
Calls(c) ==
    /\ CanCall /\ NextCaller(c)
    /\ calls' = calls + 1

\* what a step of the logger does to the other callers
Disturbed(c) ==
    [d \in Callers |->
        IF d # c /\ call[d].pc # "idle" THEN [call[d] EXCEPT !.alone = FALSE]
        ELSE call[d]]

\* caller c runs a statement of the logger
LogStep(c) ==
    /\ Running
    /\ call[c].pc \in LogPcs
    /\ LET s == logStep(lg, call[c])
       IN  /\ lg' = s.l
           /\ Go(c, s.k, Disturbed(c))
    /\ UNCHANGED <<tvars, backend, cfg, ret, fd, tmo, calls, ov>>

\* the name of what the device did to a call that does not wait
DevName(ok) == IF ~FdValid(fd) THEN "closed" ELSE IF ok THEN "ok" ELSE "fail"

\* Port.Read of the POSIX builds is called: p.f.Read(buf), which returns at
\* once or waits in read(2)
Read(c) ==
    /\ Calls(c) /\ ~IsWin(backend)
    /\ \E len \in 0 .. MaxBuf :
          LET k == NewCall("Read", "", Zeros(len))
          IN  IF fileBlocks(FdValid(fd), k.buf)
              THEN Go(c, [k EXCEPT !.pc = "RdWait"], call)
              ELSE Go(c, Taken(k, portRead(backend, FdValid(fd), k.buf,
                                           [kind |-> "none", k |-> 0]),
                               IF FdValid(fd) THEN "empty" ELSE "closed", <<>>),
                      call)
    /\ UNCHANGED <<tvars, backend, cfg, ret, fd, tmo, lg, ov>>

\* read(2) returns to the Read of caller c: data, end of file, the timeout,
\* or an error
FileRead(c) ==
    /\ Running
    /\ call[c].pc = "RdWait"
    /\ \E dev \in ReadDevs(Len(call[c].buf)) :
          Go(c, Taken(call[c], portRead(backend, TRUE, call[c].buf, dev), dev.kind,
                      <<>>),
             call)
    /\ UNCHANGED <<tvars, backend, cfg, ret, fd, tmo, lg, calls, ov>>

\* Port.Write of the POSIX builds is called: p.f.Write(buf)
Write(c) ==
    /\ Calls(c) /\ ~IsWin(backend)
    /\ \E len \in 0 .. MaxBuf :
          LET k == NewCall("Write", "", CallerBytes(len))
          IN  IF fileBlocks(FdValid(fd), k.buf)
              THEN Go(c, [k EXCEPT !.pc = "WrWait"], call)
              ELSE Go(c, Taken(k, portWrite(FdValid(fd), k.buf,
                                            [kind |-> "none", k |-> 0]),
                               IF FdValid(fd) THEN "empty" ELSE "closed", <<>>),
                      call)
    /\ UNCHANGED <<tvars, backend, cfg, ret, fd, tmo, lg, ov>>

\* write(2) returns to the Write of caller c
FileWrite(c) ==
    /\ Running
    /\ call[c].pc = "WrWait"
    /\ \E dev \in WriteDevs(Len(call[c].buf)) :
          Go(c, Taken(call[c], portWrite(TRUE, call[c].buf, dev), dev.kind, <<>>),
             call)
    /\ UNCHANGED <<tvars, backend, cfg, ret, fd, tmo, lg, calls, ov>>

\* a call whose system call does not wait: the system call is the step in
\* which it is made
Direct(c, op, arg, r, ok) ==
    /\ Calls(c)
    /\ Go(c, Taken(NewCall(op, arg, <<>>), r, DevName(ok), <<>>), call)
    /\ UNCHANGED <<tvars, backend, cfg, ret, fd, tmo, lg, ov>>

Flush(c) ==
    \E ok \in BOOLEAN :
       Direct(c, "Flush", "", portFlush(backend, FdValid(fd), ok), ok)

SetDtr(c) ==
    \E v \in BOOLEAN, ok \in BOOLEAN :
       Direct(c, "SetDtr", BoolStr(v), portSetDtr(backend, v, FdValid(fd), ok), ok)

SetRts(c) ==
    \E v \in BOOLEAN, ok \in BOOLEAN :
       Direct(c, "SetRts", BoolStr(v), portSetRts(backend, v, FdValid(fd), ok), ok)

\* the status bytes the device reports: every combination of the four
\* signals, and three of them over low bits that are set
StatusVals ==
    {MS_CTS_ON * k : k \in 0 .. 15} \cup {MS_CTS_ON * k + 15 : k \in {0, 6, 15}}

GetCommModemStatus(c) ==
    /\ IsWin(backend)
    /\ \E statusval \in StatusVals, ok \in BOOLEAN :
          Direct(c, "GetCommModemStatus", statusval,
                 getCommModemStatus(backend, statusval, FdValid(fd), ok), ok)

\* Close is called, whatever the other callers are inside: it takes no
\* lock and tests nothing.  It goes through the logger first,
Close(c) ==
    /\ Calls(c)
    /\ Go(c, logStart(NewCall("Close", "", <<>>), lg.logger, portClose(backend),
                      <<"fclose">>),
          call)
    /\ UNCHANGED <<tvars, backend, cfg, ret, fd, tmo, lg, ov>>

\* and then closes the file: return p.f.Close()
CloseFile(c) ==
    /\ Running
    /\ call[c].pc = "fclose"
    /\ fd' = fileCloseFd(fd)
    /\ Go(c, [call[c] EXCEPT !.pc = "done", !.err = fileClose(FdValid(fd)),
                             !.dev = IF FdValid(fd) THEN "ok" ELSE "closed"],
          call)
    /\ UNCHANGED <<tvars, backend, cfg, ret, tmo, lg, calls, ov>>

(***************************************************************************)
(* Read and Write of the Windows builds: the lock, resetEvent, ReadFile or *)
(* WriteFile, and getOverlappedResult.                                     *)
(***************************************************************************)
\* the OVERLAPPED structure Write hands to getOverlappedResult: p.ro in the
\* Windows build, p.wo in the earlier one
writeResultOv(b) == IF b = "win" THEN "r" ELSE "w"

\* the OVERLAPPED structure Read hands to getOverlappedResult
readResultOv(b) == "r"

\* what ReadFile / WriteFile report: a failure, completion at once with k
\* bytes, or ERROR_IO_PENDING; a closed handle is refused
IssueOutcomes(valid, ks) ==
    IF ~valid THEN {[kind |-> "fail", k |-> 0]}
    ELSE {[kind |-> "fail", k |-> 0], [kind |-> "pending", k |-> 0]}
         \cup {[kind |-> "sync", k |-> k] : k \in ks}

\* the error of a ReadFile / WriteFile that failed
issueError(valid) == IF valid THEN "errno" ELSE "ERROR_INVALID_HANDLE"

\* the earlier Windows build prints the error where a call fails:
\* p.logMsg(tag, err.Error())
failMsg(b, tag, err) == IF b = "winOld" THEN CallLogMsg(tag, err, <<>>) ELSE NoLog

\* a step of a Read or Write of caller c that is at pc
WinStep(c, pc) ==
    /\ Running
    /\ call[c].pc = pc
    /\ UNCHANGED <<tvars, backend, cfg, ret, fd, tmo, lg, calls>>

RdCall(c) ==
    /\ Calls(c) /\ IsWin(backend)
    /\ \E len \in 1 .. MaxBuf :
          Go(c, [NewCall("Read", "", Zeros(len)) EXCEPT !.pc = "RdLock"], call)
    /\ UNCHANGED <<tvars, backend, cfg, ret, fd, tmo, lg, ov>>

\* p.rl.Lock()
RdLock(c) ==
    /\ WinStep(c, "RdLock")
    /\ lockFree(rl)
    /\ rl' = c
    /\ call' = [call EXCEPT ![c].pc = "RdReset"]
    /\ res' = NoCall
    /\ UNCHANGED <<phase, closed, wl, ov>>

\* resetEvent(p.ro.HEvent)
RdReset(c) ==
    /\ WinStep(c, "RdReset")
    /\ \E ok \in BOOLEAN :
          IF ok
          THEN /\ ov' = [ov EXCEPT !.r.event = FALSE]
               /\ Go(c, [call[c] EXCEPT !.pc = "RdIssue"], call)
          ELSE /\ Go(c, Taken(call[c],
                              Result(0, "errno", failMsg(backend, "Read.reset", "errno"),
                                     call[c].buf, FALSE),
                              "resetfail", <<>>),
                     call)
               /\ UNCHANGED ov

\* syscall.ReadFile(p.fd, buf, &done, p.ro)
RdIssue(c) ==
    /\ WinStep(c, "RdIssue")
    /\ \E o \in IssueOutcomes(FdValid(fd), 1 .. Len(call[c].buf)) :
          CASE o.kind = "fail" ->
                 /\ Go(c, Taken(call[c],
                                Result(0, issueError(FdValid(fd)),
                                       failMsg(backend, "Read.read",
                                               issueError(FdValid(fd))),
                                       call[c].buf, FALSE),
                                IF FdValid(fd) THEN "fail" ELSE "closed", <<>>),
                       call)
                 /\ UNCHANGED ov
            [] o.kind = "sync" ->
                 /\ ov' = [ov EXCEPT !.r = [pending |-> FALSE, n |-> o.k, err |-> "nil",
                                            event |-> TRUE, len |-> Len(call[c].buf),
                                            owner |-> c]]
                 /\ Go(c, [call[c] EXCEPT !.pc = "RdResult", !.buf = Filled(@, o.k)],
                       call)
            [] o.kind = "pending" ->
                 /\ ov' = [ov EXCEPT !.r = [pending |-> TRUE, n |-> 0, err |-> "nil",
                                            event |-> FALSE, len |-> Len(call[c].buf),
                                            owner |-> c]]
                 /\ Go(c, [call[c] EXCEPT !.pc = "RdResult"], call)

\* getOverlappedResult with bWait = 1: it waits while the operation of the
\* structure it is given is pending, then reports that structure's count
\* and status
overlappedReady(o) == ~o.pending

\* n, err = getOverlappedResult(p.fd, p.ro) returns, and the test that
\* decides on logData
RdResult(c) ==
    /\ WinStep(c, "RdResult")
    /\ LET o == ov[readResultOv(backend)]
       IN  /\ overlappedReady(o)
           /\ LET logs == IF backend = "win" THEN o.err = "nil" /\ o.n > 0
                          ELSE o.n > 0
              IN  Go(c, Taken(call[c],
                              Result(o.n, o.err,
                                     IF logs THEN CallLogData(TagRead, call[c].buf)
                                     ELSE NoLog,
                                     call[c].buf, TRUE),
                              IF o.err = "nil" THEN "done" ELSE "fail", <<>>),
                     call)
    /\ UNCHANGED ov

WrCall(c) ==
    /\ Calls(c) /\ IsWin(backend)
    /\ \E len \in 1 .. MaxBuf :
          Go(c, [NewCall("Write", "", CallerBytes(len)) EXCEPT !.pc = "WrLock"], call)
    /\ UNCHANGED <<tvars, backend, cfg, ret, fd, tmo, lg, ov>>

\* p.wl.Lock()
WrLock(c) ==
    /\ WinStep(c, "WrLock")
    /\ lockFree(wl)
    /\ wl' = c
    /\ call' = [call EXCEPT ![c].pc = "WrReset"]
    /\ res' = NoCall
    /\ UNCHANGED <<phase, closed, rl, ov>>

\* resetEvent(p.wo.HEvent)
WrReset(c) ==
    /\ WinStep(c, "WrReset")
    /\ \E ok \in BOOLEAN :
          IF ok
          THEN /\ ov' = [ov EXCEPT !.w.event = FALSE]
               /\ Go(c, [call[c] EXCEPT !.pc = "WrIssue"], call)
          ELSE /\ Go(c, Taken(call[c],
                              Result(0, "errno", failMsg(backend, "Write.reset", "errno"),
                                     call[c].buf, FALSE),
                              "resetfail", <<>>),
                     call)
               /\ UNCHANGED ov

\* syscall.WriteFile(p.fd, buf, &done, p.wo)
WrIssue(c) ==
    /\ WinStep(c, "WrIssue")
    /\ \E o \in IssueOutcomes(FdValid(fd), {Len(call[c].buf)}) :
          CASE o.kind = "fail" ->
                 /\ Go(c, Taken(call[c],
                                Result(0, issueError(FdValid(fd)),
                                       failMsg(backend, "Write.write",
                                               issueError(FdValid(fd))),
                                       call[c].buf, FALSE),
                                IF FdValid(fd) THEN "fail" ELSE "closed", <<>>),
                       call)
                 /\ UNCHANGED ov
            [] o.kind = "sync" ->
                 /\ ov' = [ov EXCEPT !.w = [pending |-> FALSE, n |-> o.k, err |-> "nil",
                                            event |-> TRUE, len |-> Len(call[c].buf),
                                            owner |-> c]]
                 /\ Go(c, [call[c] EXCEPT !.pc = "WrResult"], call)
            [] o.kind = "pending" ->
                 /\ ov' = [ov EXCEPT !.w = [pending |-> TRUE, n |-> 0, err |-> "nil",
                                            event |-> FALSE, len |-> Len(call[c].buf),
                                            owner |-> c]]
                 /\ Go(c, [call[c] EXCEPT !.pc = "WrResult"], call)

\* n, err = getOverlappedResult(p.fd, ...) returns, and the test that
\* decides on logData
WrResult(c) ==
    /\ WinStep(c, "WrResult")
    /\ LET o == ov[writeResultOv(backend)]
       IN  /\ overlappedReady(o)
           /\ LET logs == IF backend = "win" THEN o.err = "nil" ELSE o.n > 0
              IN  Go(c, Taken(call[c],
                              Result(o.n, o.err,
                                     IF logs THEN CallLogData(TagWrite, call[c].buf)
                                     ELSE NoLog,
                                     call[c].buf, TRUE),
                              IF o.err = "nil" THEN "done" ELSE "fail", <<>>),
                     call)
    /\ UNCHANGED ov

\* a step of the device
DevStep ==
    /\ Running
    /\ res' = NoCall
    /\ UNCHANGED <<tvars, backend, phase, cfg, ret, fd, tmo, lg, closed, calls,
                   rl, wl>>

\* The device completes the pending read: k bytes arrive (none: the read
\* timeout expired), or the operation fails.  The bytes land in the buffer
\* of the Read that issued it.
DevRead ==
    /\ DevStep
    /\ ov.r.pending
    /\ \E ok \in BOOLEAN : \E k \in (IF ok THEN 0 .. ov.r.len ELSE {0}) :
          /\ ov' = [ov EXCEPT !.r.pending = FALSE, !.r.n = k, !.r.event = TRUE,
                              !.r.err = IF ok THEN "nil" ELSE "errno"]
          /\ call' = IF call[ov.r.owner].pc = "RdResult"
                     THEN [call EXCEPT ![ov.r.owner].buf = Filled(@, k)]
                     ELSE call

\* The device completes the pending write.
DevWrite ==
    /\ DevStep
    /\ ov.w.pending
    /\ \E ok \in BOOLEAN :
          ov' = [ov EXCEPT !.w.pending = FALSE, !.w.event = TRUE,
                           !.w.n = IF ok THEN ov.w.len ELSE 0,
                           !.w.err = IF ok THEN "nil" ELSE "errno"]
    /\ UNCHANGED call

Next ==
    \/ OpenPort
    \/ \E c \in Callers : Read(c)
    \/ \E c \in Callers : FileRead(c)
    \/ \E c \in Callers : Write(c)
    \/ \E c \in Callers : FileWrite(c)
    \/ \E c \in Callers : Flush(c)
    \/ \E c \in Callers : SetDtr(c)
    \/ \E c \in Callers : SetRts(c)
    \/ \E c \in Callers : GetCommModemStatus(c)
    \/ \E c \in Callers : Close(c)
    \/ \E c \in Callers : CloseFile(c)
    \/ \E c \in Callers : LogStep(c)
    \/ \E c \in Callers : RdCall(c)
    \/ \E c \in Callers : RdLock(c)
    \/ \E c \in Callers : RdReset(c)
    \/ \E c \in Callers : RdIssue(c)
    \/ \E c \in Callers : RdResult(c)
    \/ \E c \in Callers : WrCall(c)
    \/ \E c \in Callers : WrLock(c)
    \/ \E c \in Callers : WrReset(c)
    \/ \E c \in Callers : WrIssue(c)
    \/ \E c \in Callers : WrResult(c)
    \/ DevRead
    \/ DevWrite

Spec == Init /\ [][Next]_vars

(***************************************************************************)
(* The timeout translations applied to a range of Durations.               *)
(***************************************************************************)
\* Every whole millisecond count up to MaxDenseMs is tried.
MaxDenseMs == 300

DurMsLo == (0 .. MaxDenseMs) \cup
           {25499, 25500, 25501, 25599, 25600, 30000, 65534, 65535}

DurNs == {0, 1, NsPerMs - 1}

Durations ==
    {Dur(0, l, n) : l \in DurMsLo, n \in DurNs}
    \cup {Dur(h, l, n) : h \in {1, 65535, 65536, 65537}, l \in {0, 1, 65535},
                         n \in DurNs}
    \* the largest int64 Duration: 2^63 - 1 ns = 9223372036854 ms + 775807 ns,
    \* and 9223372036854 = 140737488 * 65536 + 23286
    \cup {Dur(140737488, 23286, 775807)}
    \cup {[neg |-> TRUE, hi |-> 0, lo |-> l, ns |-> n] :
             l \in {0, 250}, n \in {1, NsPerMs - 1}}

NoResult == [fn |-> "none"]

TInit ==
    /\ tin \in Durations
    /\ tfn = "none"
    /\ tout = NoResult
    /\ PortNew("linux")

CallPosixTimeoutValues ==
    /\ tfn = "none"
    /\ tfn' = "posix"
    /\ tout' = posixTimeoutValues(tin)
    /\ UNCHANGED <<tin, logged, pvars>>

CallPosixTimeoutValuesOld ==
    /\ tfn = "none"
    /\ tfn' = "posixOld"
    /\ tout' = posixTimeoutValuesOld(tin)
    /\ UNCHANGED <<tin, logged, pvars>>

CallSetCommTimeouts ==
    /\ tfn = "none"
    /\ tfn' = "win"
    /\ tout' = commTimeouts(tin)
    /\ UNCHANGED <<tin, logged, pvars>>

TNext ==
    \/ CallPosixTimeoutValues
    \/ CallPosixTimeoutValuesOld
    \/ CallSetCommTimeouts

SpecT == TInit /\ [][TNext]_vars

IsPosix == tfn \in {"posix", "posixOld"}

\* d < m milliseconds, for a non-negative Duration d and 0 <= m < 65536
DurLtMs(d, m) == d.hi = 0 /\ d.lo < m

(***************************************************************************)
(* C1: posixTimeoutValues gives vmin = 0 and 1 <= vtime <= 255 for every   *)
(* read timeout d > 0, and vmin = 1, vtime = 0 for d = 0.                  *)
(***************************************************************************)
C1_VtimeRange ==
    IsPosix =>
        /\ DurPositive(tin) => tout.vmin = 0 /\ tout.vtime >= 1 /\ tout.vtime <= 255
        /\ (~tin.neg /\ DurZero(tin)) => tout.vmin = 1 /\ tout.vtime = 0

\* a sub-100ms positive timeout has been translated: the floor of 1 acts
C1_Witness ==
    /\ tfn = "posix" /\ DurPositive(tin) /\ DurLtMs(tin, 100)
    /\ tout.vtime = 1

(***************************************************************************)
(* C2: for every d > 0, vtime = min(255, max(1, floor(d / 100ms))): the    *)
(* quotient is truncated, then clamped to [1, 255]; 0ms -> (1, 0),         *)
(* 50ms -> (0, 1), 100ms -> (0, 1), 25500ms -> (0, 255),                   *)
(* 30000ms -> (0, 255).                                                    *)
(***************************************************************************)
C2_VtimeFloorClamp ==
    IsPosix =>
        /\ DurPositive(tin) =>
              /\ DurLtMs(tin, 100) => tout.vtime = 1
              /\ ~DurLtMs(tin, 25600) => tout.vtime = 255
              /\ (~DurLtMs(tin, 100) /\ DurLtMs(tin, 25600)) =>
                    \* vtime * 100ms <= d < (vtime + 1) * 100ms
                    /\ ~DurLtMs(tin, 100 * tout.vtime)
                    /\ DurLtMs(tin, 100 * (tout.vtime + 1))
        /\ tin = Ms(0) => tout = [vmin |-> 1, vtime |-> 0]
        /\ tin = Ms(50) => tout = [vmin |-> 0, vtime |-> 1]
        /\ tin = Ms(100) => tout = [vmin |-> 0, vtime |-> 1]
        /\ tin = Ms(25500) => tout = [vmin |-> 0, vtime |-> 255]
        /\ tin = Ms(30000) => tout = [vmin |-> 0, vtime |-> 255]

\* a timeout strictly between two deciseconds has been truncated downwards
C2_Witness ==
    /\ tfn = "posixOld" /\ tin = Dur(0, 299, NsPerMs - 1)
    /\ tout.vtime = 2

(***************************************************************************)
(* C3: setCommTimeouts installs, for d > 0, ReadIntervalTimeout = 0,       *)
(* ReadTotalTimeoutMultiplier = 0 and ReadTotalTimeoutConstant =           *)
(* clamp(floor(d / 1ms), 1, 2^32 - 1), the uint32 conversion never         *)
(* wrapping; for d = 0 the triple (MAXDWORD, MAXDWORD, MAXDWORD - 1).      *)
(***************************************************************************)
C3_CommTimeouts ==
    tfn = "win" =>
        /\ DurPositive(tin) =>
              /\ tout.ReadIntervalTimeout = DwordZero
              /\ tout.ReadTotalTimeoutMultiplier = DwordZero
              /\ LET c == tout.ReadTotalTimeoutConstant
                 IN  \* below one millisecond: 1
                     /\ (tin.hi = 0 /\ tin.lo = 0) => c = [hi |-> 0, lo |-> 1]
                     \* 1 .. 2^32 - 1 milliseconds: the millisecond count itself
                     /\ ((tin.hi > 0 \/ tin.lo > 0) /\ tin.hi < Limb) =>
                            c = [hi |-> tin.hi, lo |-> tin.lo]
                     \* 2^32 milliseconds and above: 2^32 - 1
                     /\ tin.hi >= Limb => c = MAXDWORD
        /\ (~tin.neg /\ DurZero(tin)) =>
              /\ tout.ReadIntervalTimeout = MAXDWORD
              /\ tout.ReadTotalTimeoutMultiplier = MAXDWORD
              /\ tout.ReadTotalTimeoutConstant = MAXDWORDm1

\* a timeout of more than 2^32 - 1 milliseconds has been clamped
C3_Witness ==
    /\ tfn = "win" /\ tin = Dur(65536, 1, 0)
    /\ tout.ReadTotalTimeoutConstant = MAXDWORD

(***************************************************************************)
(* C4: OpenPort with a baud rate that the build's baud lookup does not     *)
(* hold fails: it returns a nil Port and a non-nil error, and where the    *)
(* lookup is the first step the error is the invalid-baud-rate error.      *)
(* (The Windows builds have no lookup.)                                    *)
(***************************************************************************)
C4_UnknownBaudFails ==
    (/\ phase # "new"
     /\ ~IsWin(backend)
     /\ cfg.Baud \notin (IF backend = "cgo" THEN CgoBauds ELSE LinuxBauds))
    => /\ ~ret.p
       /\ ret.err # "nil"
       /\ backend # "cgo" => ret.err = "Invalid baud rate"

(***************************************************************************)
(* C5: openPort never leaks the device descriptor: when a step fails after *)
(* the device has been opened, the descriptor has been closed exactly once *)
(* when the error is returned; a returned Port holds it open.              *)
(***************************************************************************)
C5_NoDescriptorLeak ==
    phase # "new" =>
        /\ fd.opens \in {0, 1}
        /\ (~ret.p) => fd.closes = fd.opens
        /\ ret.p => fd.opens = 1 /\ fd.closes = 0

\* the second completion event could not be created: the handle opened by
\* CreateFile has been closed
C5_Witness ==
    /\ backend = "win" /\ phase = "failed" /\ ret.events = 1
    /\ ret.err # "nil" /\ fd.opens = 1 /\ fd.closes = 1

(***************************************************************************)
(* C6: a Port that OpenPort returns is fully open (descriptor valid, and   *)
(* on the Windows builds both completion events created) and comes with a  *)
(* nil error; a failed open returns a nil Port and a non-nil error.  No    *)
(* call returns both a Port and an error, and none returns neither.        *)
(***************************************************************************)
C6_PortXorError ==
    phase # "new" =>
        /\ ret.p => /\ ret.err = "nil"
                    /\ FdValid(fd)
                    /\ IsWin(backend) => ret.events = 2
        /\ (~ret.p) => ret.err # "nil"

(***************************************************************************)
(* C7: on the Windows builds at most one Read and at most one Write is     *)
(* between taking its lock and returning, and the call that is there holds *)
(* the lock of its direction, so that a second Read (Write) waits at the   *)
(* lock until the first has returned; the two directions do not exclude    *)
(* each other.                                                             *)
(***************************************************************************)
C7_OneReadOneWrite ==
    IsWin(backend) =>
        LET inRead == {c \in Callers : call[c].op = "Read" /\ call[c].pc # "RdLock"}
            inWrite == {c \in Callers : call[c].op = "Write" /\ call[c].pc # "WrLock"}
        IN  /\ Cardinality(inRead) <= 1
            /\ Cardinality(inWrite) <= 1
            /\ \A c \in inRead : rl = c
            /\ \A c \in inWrite : wl = c
            /\ (inRead = {}) => rl = 0
            /\ (inWrite = {}) => wl = 0

\* a second Read waits at the lock while the first waits for the device
C7_Witness ==
    \E c, d \in Callers :
        /\ call[c].pc = "RdResult" /\ ov.r.pending
        /\ call[d].pc = "RdLock" /\ rl = c

(***************************************************************************)
(* C8: on the Windows builds, with a Read and a Write in flight together,  *)
(* neither call's return waits for the other direction: a call whose own   *)
(* operation has completed is able to go on from getOverlappedResult.      *)
(***************************************************************************)
C8_ReturnIndependent ==
    \A c \in Callers :
        /\ (call[c].pc = "RdResult" /\ ~ov.r.pending) =>
               overlappedReady(ov[readResultOv(backend)])
        /\ (call[c].pc = "WrResult" /\ ~ov.w.pending) =>
               overlappedReady(ov[writeResultOv(backend)])

(***************************************************************************)
(* C9: Read of the POSIX builds returns (0, nil) when the read reports end *)
(* of file or the read timeout expires without data, and prints nothing;   *)
(* any other failure of the read is returned as a non-nil error and, with  *)
(* a logger attached, printed to the trace log as a "Read" message, the    *)
(* last line the call prints.                                              *)
(***************************************************************************)
C9_ReadEofAndErrors ==
    (res.op = "Read" /\ ~IsWin(backend)) =>
        /\ res.dev \in {"eof", "timeout"} =>
              /\ res.n = 0 /\ res.err = "nil"
              /\ res.lines = <<>>
        /\ res.dev = "fail" =>
              /\ res.err # "nil"
              /\ lg.logger =>
                    /\ res.lines # <<>>
                    /\ res.lines[Len(res.lines)].kind = "msg"
                    /\ res.lines[Len(res.lines)].tag = "Read"
                    /\ res.lines[Len(res.lines)].args = <<res.err>>

\* the read timeout expired on a Port that has a logger, and Read returned
\* (0, nil)
C9_Witness ==
    /\ res.op = "Read" /\ backend = "linux" /\ res.dev = "timeout"
    /\ lg.logger /\ res.waited /\ res.n = 0 /\ res.err = "nil"

(***************************************************************************)
(* C10: a Read, Write, Flush, SetDtr, SetRts or GetCommModemStatus called  *)
(* after Close has returned returns a non-nil error, and returns without   *)
(* having waited for the device.                                           *)
(***************************************************************************)
C10_FailsAfterClose ==
    /\ (res.after /\ res.op \in {"Read", "Write", "Flush", "SetDtr", "SetRts",
                                 "GetCommModemStatus"}) =>
           res.err # "nil" /\ ~res.waited
    /\ \A c \in Callers :
           call[c].after =>
               call[c].pc \notin {"RdWait", "WrWait", "RdResult", "WrResult"}

\* a Read of the Windows build, called after Close, has been refused by
\* ReadFile
C10_Witness ==
    /\ res.op = "Read" /\ res.after /\ backend = "win" /\ res.dev = "closed"
    /\ res.err = "ERROR_INVALID_HANDLE"

\* the bytes the trace buffer held when the call was made
Buffered(pre) == SubSeq(pre.logBuf, 1, pre.logPtr)

(***************************************************************************)
(* C11: a Close during which no other call is in the logger emits every    *)
(* byte the trace buffer held when Close was called (as rows under the     *)
(* buffer's tag, ahead of its own "Close" message) before it closes the    *)
(* file, and when it returns the trace buffer is empty, logPtr = 0, and    *)
(* the descriptor released.                                                *)
(***************************************************************************)
C11_CloseFlushes ==
    /\ (res.op = "Close" /\ res.alone) =>
          /\ lg.logPtr = 0
          /\ ~FdValid(fd)
          /\ lg.logger =>
                LET new == res.lines
                IN  /\ new # <<>>
                    /\ new[Len(new)].kind = "msg" /\ new[Len(new)].tag = "Close"
                    /\ RowBytes(SubSeq(new, 1, Len(new) - 1)) = Buffered(res.pre)
                    /\ \A i \in 1 .. Len(new) - 1 :
                           new[i].kind = "row" /\ new[i].rune = res.pre.logTag
    /\ \A c \in Callers :
          (call[c].pc = "fclose" /\ call[c].alone) =>
              /\ lg.logPtr = 0
              /\ lg.logger => RowBytes(call[c].lines) = Buffered(call[c].pre)

\* Close has emitted the bytes a Read left in the trace buffer
C11_Witness ==
    /\ res.op = "Close" /\ res.alone /\ ~res.after /\ lg.logger /\ lg.logPtr = 0
    /\ res.pre.logPtr > 0
    /\ Len(res.lines) = 2
    /\ res.lines[1].kind = "row" /\ res.lines[1].rune = TagRead
    /\ res.lines[2].tag = "Close"

\* the call handed data to logData under tag
HandedOver(r, tag, data) ==
    r.req.kind = "data" /\ r.req.rune = tag /\ r.req.data = data

(***************************************************************************)
(* C12: with a logger attached, a Read or Write that has transferred at    *)
(* least one byte without error has handed its buffer to logData when it   *)
(* returns, under '+' for Read and '-' for Write.  On the POSIX builds the *)
(* transfer is what the call returns; on the Windows builds it is what the *)
(* call's own overlapped operation reports.                                *)
(***************************************************************************)
C12_TransferIsLogged ==
    lg.logger =>
        /\ (res.op = "Read" /\ ~IsWin(backend) /\ res.err = "nil" /\ res.n >= 1) =>
               HandedOver(res, TagRead, res.buf)
        /\ (res.op = "Write" /\ ~IsWin(backend) /\ res.err = "nil" /\ res.n >= 1) =>
               HandedOver(res, TagWrite, res.buf)
        /\ (/\ res.op = "Read" /\ IsWin(backend) /\ res.waited
            /\ ~ov.r.pending /\ ov.r.err = "nil" /\ ov.r.n >= 1) =>
               HandedOver(res, TagRead, res.buf)
        /\ (/\ res.op = "Write" /\ IsWin(backend) /\ res.waited
            /\ ~ov.w.pending /\ ov.w.err = "nil" /\ ov.w.n >= 1) =>
               HandedOver(res, TagWrite, res.buf)

(***************************************************************************)
(* The trace logger on its own: logData, logMsg and logFlush called one    *)
(* after the other, with or without a logger attached, on each of the      *)
(* three loggers of the sources.  The bytes handed to logData are numbered *)
(* through, so that a byte lost, repeated or out of place shows.           *)
(***************************************************************************)
\* how many logger calls are made
MaxLogCalls == 3

\* the byte at position pos of everything handed to logData
DataByte(pos) == (pos * 37 + 11) % 256

\* the entries of logged that are bytes
DataEntries(h) == SelectSeq(h, LAMBDA e : e.op = "data")

\* the data lengths tried: within a row, a row, across a row, the whole
\* buffer, and across the whole buffer
LogLens(l) == {1, 3, RowLen, RowLen + 1, Len(l.logBuf), Len(l.logBuf) + 2}

LogTags == {TagRead, TagWrite}

\* the loggers: the BasePort of serial.go and that of unnamed/part_000,
\* whose Close is BasePort.Close, and the Port of the earlier builds
LogVariants ==
    {[b |-> "linux", l |-> NewLog], [b |-> "win", l |-> NewLogUnnamed],
     [b |-> "cgo", l |-> NewPortLog("cgo")]}

LInit ==
    /\ tin = Ms(0)
    /\ tfn = "none"
    /\ tout = NoResult
    /\ \E v \in LogVariants :
          /\ backend = v.b
          /\ \E ok \in BOOLEAN : lg = openLog(v.l, ok).l
    /\ phase = "open"
    /\ cfg = NoConfig
    /\ ret = NoReturn
    /\ fd = [opens |-> 1, closes |-> 0]
    /\ tmo = NoTimeouts
    /\ closed = FALSE
    /\ calls = 0
    /\ call = [c \in Callers |-> Idle]
    /\ rl = 0
    /\ wl = 0
    /\ ov = [r |-> NewOverlapped, w |-> NewOverlapped]
    /\ res = NoCall
    /\ logged = <<>>

LogCall ==
    /\ calls < MaxLogCalls
    /\ calls' = calls + 1
    /\ UNCHANGED <<tin, tfn, tout, backend, phase, cfg, ret, fd, tmo, closed,
                   call, rl, wl, ov, res>>

\* p.logData(tag, data)
LogData ==
    /\ LogCall
    /\ \E tag \in LogTags, len \in LogLens(lg) :
          LET n    == Len(DataEntries(logged))
              data == [i \in 1 .. len |-> DataByte(n + i - 1)]
          IN  /\ lg' = logData(lg, tag, data)
              /\ logged' = logged \o [i \in 1 .. len |->
                                        [op |-> "data", tag |-> tag, byte |-> data[i]]]

\* p.logMsg("Msg", "text")
LogMsg ==
    /\ LogCall
    /\ lg' = logMsg(lg, "Msg", "text", <<>>)
    /\ logged' = Append(logged, [op |-> "msg", tag |-> 0, byte |-> 0])

\* p.logFlush()
LogFlush ==
    /\ LogCall
    /\ lg' = logFlush(lg)
    /\ logged' = Append(logged, [op |-> "flush", tag |-> 0, byte |-> 0])

\* p.Close()
LogClose ==
    /\ calls < MaxLogCalls
    /\ calls' = calls + 1
    /\ lg' = logCall(lg, portClose(backend))
    /\ fd' = fileCloseFd(fd)
    /\ closed' = TRUE
    /\ logged' = Append(logged, [op |-> "close", tag |-> 0, byte |-> 0])
    /\ UNCHANGED <<tin, tfn, tout, backend, phase, cfg, ret, tmo, call, rl, wl,
                   ov, res>>

LNext == LogData \/ LogMsg \/ LogFlush \/ LogClose

SpecLog == LInit /\ [][LNext]_vars

\* the calls so far: logData only, under one tag, then one logFlush
DataThenFlush ==
    /\ Len(logged) >= 2
    /\ logged[Len(logged)].op = "flush"
    /\ \A i \in 1 .. Len(logged) - 1 :
          logged[i].op = "data" /\ logged[i].tag = logged[1].tag

(***************************************************************************)
(* C13: after logData calls under one tag with k bytes in all, and the     *)
(* flush of the bytes still buffered, the sink holds ceil(k / 16) rows,    *)
(* every row but the last holds 16 bytes however the bytes were split      *)
(* over the calls, and the rows' bytes in order are the bytes logged.      *)
(***************************************************************************)
C13_RowsOfSixteen ==
    (lg.logger /\ DataThenFlush) =>
        LET k == Len(logged) - 1
        IN  /\ Len(lg.sink) = (k + RowLen - 1) \div RowLen
            /\ \A i \in 1 .. Len(lg.sink) :
                  /\ lg.sink[i].kind = "row"
                  /\ lg.sink[i].rune = logged[1].tag
                  /\ i < Len(lg.sink) => Len(lg.sink[i].bytes) = RowLen
            /\ RowBytes(lg.sink) = [i \in 1 .. k |-> logged[i].byte]
            /\ lg.logPtr = 0

\* more bytes than the buffer holds, handed over in pieces that end inside
\* a row, have been flushed
C13_Witness ==
    /\ lg.logger /\ DataThenFlush
    /\ Len(logged) - 1 = Len(lg.logBuf) + 2 + 3
    /\ logged[1].tag = TagWrite
    /\ Len(lg.sink[Len(lg.sink)].bytes) = 5

\* the tag of the row each byte of the rows of lines was printed under
RECURSIVE RowTags(_)
RowTags(lines) ==
    IF lines = <<>> THEN <<>>
    ELSE [i \in 1 .. Len(Head(lines).bytes) |-> Head(lines).rune]
         \o RowTags(Tail(lines))

(***************************************************************************)
(* C14: a byte handed to logData is printed, or still buffered, under the  *)
(* tag it was handed over with, in the order of the calls: logData with a  *)
(* tag other than the buffer's flushes what is buffered under the old tag, *)
(* a partial row included, before it stores a byte of the new data, so no  *)
(* row holds bytes logged under different tags.                            *)
(***************************************************************************)
C14_TagSwitchFlushes ==
    lg.logger =>
        LET d == DataEntries(logged)
        IN  /\ RowBytes(lg.sink) \o SubSeq(lg.logBuf, 1, lg.logPtr)
                 = [i \in 1 .. Len(d) |-> d[i].byte]
            /\ RowTags(lg.sink) \o [i \in 1 .. lg.logPtr |-> lg.logTag]
                 = [i \in 1 .. Len(d) |-> d[i].tag]

\* logData('+', 3 bytes) then logData('-', 1 byte): the three bytes are out,
\* in a row of their own under '+', and the one is buffered under '-'
C14_Witness ==
    /\ lg.logger
    /\ Len(logged) = 4
    /\ \A i \in 1 .. 4 : logged[i].op = "data"
    /\ logged[3].tag = TagRead /\ logged[4].tag = TagWrite
    /\ Len(lg.sink) = 1
    /\ lg.sink[1].rune = TagRead /\ Len(lg.sink[1].bytes) = 3
    /\ lg.logTag = TagWrite /\ lg.logPtr = 1

(***************************************************************************)
(* The logger run from two contexts at once.  Read and Write of one Port   *)
(* may run in two goroutines: the POSIX builds take no lock at all, the    *)
(* Windows build takes rl in Read and wl in Write, two different locks,    *)
(* and BasePort has no lock of its own.  So the statements of logData and  *)
(* of the logFlush it calls, run by Read with '+' and by Write with '-',   *)
(* interleave (LogStep), and so do those of the logMsg of a SetDtr that    *)
(* either goroutine goes on to call.  The runs are the sequentially        *)
(* consistent ones, which are among the outcomes of the data race.         *)
(***************************************************************************)
\* context 1 is Read, context 2 is Write
Contexts == {1, 2}

ContextTag(c) == IF c = 1 THEN TagRead ELSE TagWrite

\* how many calls of logData the two contexts make in all
MaxRaceCalls == 2

\* the builds: the BasePort of the Linux and the Windows build, and the
\* Port of the earlier Linux build, whose logFlush reads each byte twice
RaceBuilds == {"linux", "win", "linuxOld"}

\* how many bytes are buffered when the two contexts start
RaceFill(l) == {0, Len(l.logBuf) - 1}

\* the two contexts started on an empty buffer (the calls of a run hand
\* over less than a row)
RaceFromEmpty == Len(logged) < RowLen

\* the lengths of the transfers: one byte each from a buffer that starts
\* nearly full
RaceLens == IF RaceFromEmpty THEN 1 .. MaxBuf ELSE {1}

\* a logMsg has been called in the run
RaceMsgCalled == \E i \in 1 .. Len(logged) : logged[i].op = "msg"

RInit ==
    /\ tin = Ms(0)
    /\ tfn = "none"
    /\ tout = NoResult
    /\ phase = "open"
    /\ cfg = NoConfig
    /\ ret = NoReturn
    /\ fd = [opens |-> 1, closes |-> 0]
    /\ tmo = NoTimeouts
    /\ closed = FALSE
    /\ calls = 0
    /\ call = [c \in Callers |-> Idle]
    /\ rl = 0
    /\ wl = 0
    /\ ov = [r |-> NewOverlapped, w |-> NewOverlapped]
    /\ res = NoCall
    /\ \E b \in RaceBuilds, ok \in BOOLEAN :
          /\ backend = b
          /\ LET l0 == openLog(NewPortLog(b), ok).l
             IN  \E n \in RaceFill(l0) :
                    LET data == [i \in 1 .. n |-> DataByte(i - 1)]
                    IN  /\ lg = logData(l0, TagRead, data)
                        /\ logged = [i \in 1 .. n |->
                                       [op |-> "data", tag |-> TagRead, byte |-> data[i]]]

Panicked == phase = "panicked"

\* Read or Write of context c has transferred len bytes and calls
\* p.logData(tag, buf)
RaceLogData(c) ==
    /\ Running
    /\ call[c].pc = "idle"
    /\ calls < MaxRaceCalls
    /\ calls' = calls + 1
    /\ \E len \in RaceLens :
          LET n    == Len(DataEntries(logged))
              data == [i \in 1 .. len |-> DataByte(n + i - 1)]
          IN  /\ Go(c, logStart(NewCall("logData", "", data), lg.logger,
                                CallLogData(ContextTag(c), data), <<>>),
                    call)
              /\ logged' = logged \o [i \in 1 .. len |->
                                        [op |-> "data", tag |-> ContextTag(c),
                                         byte |-> data[i]]]
    /\ UNCHANGED <<tin, tfn, tout, backend, cfg, ret, fd, tmo, lg, ov>>

\* SetDtr(true) of context c has set the line and calls p.logMsg (tried
\* once in a run, from an empty buffer)
RaceLogMsg(c) ==
    /\ Running
    /\ RaceFromEmpty /\ ~RaceMsgCalled
    /\ call[c].pc = "idle"
    /\ calls' = calls
    /\ Go(c, logStart(NewCall("logMsg", "", <<>>), lg.logger,
                      portSetDtr(backend, TRUE, FdValid(fd), TRUE).log, <<>>),
          call)
    /\ logged' = Append(logged, [op |-> "msg", tag |-> 0, byte |-> 0])
    /\ UNCHANGED <<tin, tfn, tout, backend, cfg, ret, fd, tmo, lg, ov>>

RNext == \E c \in Contexts : RaceLogData(c) \/ RaceLogMsg(c) \/ LogStep(c)

SpecRace == RInit /\ [][RNext]_vars

\* does byte b occur in sequence s
Occurs(b, s) == \E i \in 1 .. Len(s) : s[i] = b

(***************************************************************************)
(* C15: with a logger attached, under every interleaving of a logData of   *)
(* the Read context and one of the Write context the fill pointer stays in *)
(* 0 .. capacity, no store falls outside the buffer, and once both have    *)
(* returned every byte handed over is in a printed row or in the buffer,   *)
(* once.                                                                   *)
(***************************************************************************)
C15_LoggingSerialized ==
    lg.logger =>
        /\ lg.logPtr \in 0 .. Len(lg.logBuf)
        /\ ~Panicked
        /\ (\A c \in Contexts : call[c].pc = "idle") =>
              LET d    == DataEntries(logged)
                  kept == RowBytes(lg.sink) \o SubSeq(lg.logBuf, 1, lg.logPtr)
              IN  /\ Len(kept) = Len(d)
                  /\ \A i \in 1 .. Len(d) : Occurs(d[i].byte, kept)

\* the names a message may give the signal a call is about
SignalNames(op) == IF op = "SetDtr" THEN {"DTR", "SetDtr"} ELSE {"RTS", "SetRts"}

\* message m states the requested state arg ("true" or "false")
StateNamed(m, arg) ==
    \/ Occurs(arg, m.args)
    \/ m.msg = (IF arg = "true" THEN "ON" ELSE "OFF")

(***************************************************************************)
(* C16: with a logger attached, a SetDtr or SetRts that has returned, with *)
(* or without an error, has written one message, and the message names the *)
(* signal of the call (DTR for SetDtr, RTS for SetRts) and the state that  *)
(* was requested.                                                          *)
(***************************************************************************)
C16_LineControlLogged ==
    (res.op \in {"SetDtr", "SetRts"} /\ lg.logger) =>
        LET m == MsgLines(res.lines)
        IN  /\ Len(m) = 1
            /\ m[1].tag \in SignalNames(res.op)
            /\ StateNamed(m[1], res.arg)

\* bit k (value 2^k) of byte v, read off its remainder
ByteBit(v, k) == (v % (2 ^ (k + 1))) >= 2 ^ k

(***************************************************************************)
(* C17: a GetCommModemStatus whose status call failed has returned an      *)
(* error and four false flags; one whose status call succeeded has         *)
(* returned no error, and CTS, DSR, RING and RLSD are bits 4, 5, 6 and 7   *)
(* of the status byte, each whatever the other bits are.                   *)
(***************************************************************************)
C17_ModemStatusFlags ==
    res.op = "GetCommModemStatus" =>
        IF res.dev = "ok"
        THEN /\ res.err = "nil"
             /\ res.flags = <<ByteBit(res.arg, 4), ByteBit(res.arg, 5),
                              ByteBit(res.arg, 6), ByteBit(res.arg, 7)>>
        ELSE /\ res.err # "nil"
             /\ res.flags = <<FALSE, FALSE, FALSE, FALSE>>

\* DSR and RING only have been reported, over low bits that are set
C17_Witness ==
    /\ res.op = "GetCommModemStatus" /\ res.dev = "ok"
    /\ res.arg = MS_DSR_ON + MS_RING_ON + 15
    /\ res.flags = <<FALSE, TRUE, TRUE, FALSE>>

\* a Flush whose discard request the device carried out has returned
FlushedOk(r) == r.op = "Flush" /\ r.dev = "ok"

(***************************************************************************)
(* C18: a Flush called when a Flush has just returned, both carried out by *)
(* the device and no other call in the logger meanwhile, returns nil as    *)
(* the first did, writes the messages the first wrote, and leaves the      *)
(* descriptor, the timeouts and the trace buffer as the first left them.   *)
(***************************************************************************)
C18_FlushTwice ==
    (FlushedOk(res) /\ FlushedOk(res.prev) /\ res.alone) =>
        /\ res.prev.err = "nil" /\ res.err = "nil"
        /\ MsgLines(res.lines) = res.prev.msgs
        /\ lg.logPtr = res.pre.logPtr /\ lg.logBuf = res.pre.logBuf
        /\ lg.logTag = res.pre.logTag
        /\ fd = res.pre.fd /\ closed = res.after

\* OpenPort opened the device and could not open the log file
LogOpenFailed ==
    /\ phase = "open" /\ ret.p
    /\ cfg.LogFile # "" /\ ret.err = openLog(NewPortLog(backend), FALSE).err

(***************************************************************************)
(* C19: when the log file could not be opened OpenPort returns the Port    *)
(* with that error, and from then on the Port is a Port without a logger:  *)
(* the descriptor is open until Close, no call writes a line, and the      *)
(* trace fields stay those of a Port opened with no LogFile, whatever is   *)
(* called.                                                                 *)
(***************************************************************************)
C19_FailedLogIsAbsent ==
    LogOpenFailed =>
        /\ ~lg.logger
        /\ lg = NewPortLog(backend)
        /\ res.lines = <<>>
        /\ ~closed => FdValid(fd)

\* a Write on such a Port has transferred its bytes and returned no error
C19_Witness ==
    /\ LogOpenFailed
    /\ res.op = "Write" /\ res.n > 0 /\ res.err = "nil"

\* openPort of a POSIX build has installed the timeouts for a ReadTimeout
\* of 250 ms
Opened250 == ~IsWin(backend) /\ ret.set /\ cfg.ReadTimeout = Ms(250)

(***************************************************************************)
(* C20: opening with ReadTimeout = 250 ms installs VMIN = 0 and VTIME = 2  *)
(* on the POSIX builds: 250 ms / 100 ms is 2.5, and the quotient is        *)
(* truncated.                                                              *)
(***************************************************************************)
C20_Open250 == Opened250 => tmo = [vmin |-> 0, vtime |-> 2]

\* the claim as stated: VMIN = 0 and VTIME = 3
C20_Open250AsStated == Opened250 => tmo = [vmin |-> 0, vtime |-> 3]

\* the Linux build has opened a port at 9600 baud with 250 ms
C20_Witness ==
    /\ Opened250 /\ backend = "linux" /\ phase = "open" /\ ret.err = "nil"
    /\ cfg.Baud = 9600
    /\ tmo.vtime = 2

\* OpenPort has been called with a baud rate the build's lookup does not hold
UnknownBaud ==
    /\ phase # "new" /\ ~IsWin(backend)
    /\ cfg.Baud \notin (IF backend = "cgo" THEN CgoBauds ELSE LinuxBauds)

(***************************************************************************)
(* C21: an OpenPort with a baud rate its build does not support has not    *)
(* opened the device at any point of the call: the descriptor was never    *)
(* created, not even created and closed again.                             *)
(***************************************************************************)
C21_UnknownBaudOpensNothing ==
    UnknownBaud => fd.opens = 0 /\ fd.closes = 0

(***************************************************************************)
(* C22: the file that openLog opened for the logger is closed once, by     *)
(* Close: it is open while the Port is, closed when Close has returned,    *)
(* and never closed twice.                                                 *)
(***************************************************************************)
C22_SinkClosedAtClose ==
    lg.logger =>
        /\ lg.sinkFd.opens = 1
        /\ lg.sinkFd.closes <= 1
        /\ ~closed => lg.sinkFd.closes = 0
        /\ closed => lg.sinkFd.closes = 1

\* a Read, a Write or a Flush has returned an error
FailedReturn == res.op \in {"Read", "Write", "Flush"} /\ res.err # "nil"

(***************************************************************************)
(* C23: with a logger attached, a Read, Write or Flush that returns an     *)
(* error has written a message by the time it returns, and has handed no   *)
(* data of its own to the trace.                                           *)
(***************************************************************************)
C23_FailuresLogged ==
    (lg.logger /\ FailedReturn) =>
        /\ MsgLines(res.lines) # <<>>
        /\ res.req.kind # "data"
        /\ res.alone => TraceBytes(lg) = res.pre.bytes

\* the bytes the trace of l holds, in the order it will show them
TraceOrder(l) == RowBytes(l.sink) \o SubSeq(l.logBuf, 1, l.logPtr)

(***************************************************************************)
(* C24: when the Read and the Write context have both returned, the bytes  *)
(* of the transfers stand in the trace in the order in which the transfers *)
(* completed: the bytes the trace holds, read in its order, are the bytes  *)
(* of the completed transfers read in theirs.                              *)
(***************************************************************************)
C24_CompletionOrder ==
    (lg.logger /\ \A c \in Contexts : call[c].pc = "idle") =>
        LET d     == DataEntries(logged)
            bytes == [i \in 1 .. Len(d) |-> d[i].byte]
            kept  == TraceOrder(lg)
        IN  SelectSeq(kept, LAMBDA b : Occurs(b, bytes))
              = SelectSeq(bytes, LAMBDA b : Occurs(b, kept))

\* call r returned what the overlapped structure o reports, o's operation
\* being the call's own and complete
ReturnsResultOf(r, o) ==
    /\ o.owner = r.who
    /\ ~o.pending
    /\ r.n = o.n /\ r.err = o.err

(***************************************************************************)
(* C25: on the Windows builds a Write that got as far as waiting returns   *)
(* the count and the status of its own operation, the one it issued with   *)
(* the write structure, and a Read those of the read structure, whatever   *)
(* the other direction has done.                                           *)
(***************************************************************************)
C25_OwnOverlapped ==
    (IsWin(backend) /\ res.waited) =>
        /\ res.op = "Write" => ReturnsResultOf(res, ov.w)
        /\ res.op = "Read" => ReturnsResultOf(res, ov.r)

\* caller c goes on from pc, one of pcs, to something other than the next
\* step of its call: it leaves before the wait
LeavesBeforeWait(c, pcs, next) ==
    call[c].pc \in pcs /\ call'[c].pc \notin pcs \cup {next}

\* what holds of a call that leaves before its wait: it has an error and
\* has not waited, and it either returns on this step or has its message
\* to print first
LeftWithError(c, op) ==
    /\ ov' = ov
    /\ IF call'[c].pc = "idle"
       THEN /\ res'.op = op /\ res'.who = c
            /\ res'.err # "nil" /\ ~res'.waited
       ELSE /\ call'[c].pc \in LogPcs
            /\ call'[c].err # "nil" /\ ~call'[c].waited

(***************************************************************************)
(* C26: on the Windows builds a Read or Write leaves before its wait only  *)
(* with an error, that of resetEvent or of ReadFile / WriteFile: it has    *)
(* then not waited on the event nor asked for the overlapped result, the   *)
(* overlapped structures are as they were, and when it has returned the    *)
(* lock of its direction, which it held, is free.  A call that goes on to  *)
(* wait has its operation in flight or complete.                           *)
(***************************************************************************)
C26_FailsBeforeWait ==
    /\ []((IsWin(backend) /\ res.op \in {"Read", "Write"}) =>
            /\ ~res.waited => res.err # "nil"
            /\ res.op = "Read" => rl = 0
            /\ res.op = "Write" => wl = 0)
    /\ [][\A c \in Callers :
            /\ LeavesBeforeWait(c, {"RdReset", "RdIssue"}, "RdResult") =>
                  rl = c /\ LeftWithError(c, "Read")
            /\ LeavesBeforeWait(c, {"WrReset", "WrIssue"}, "WrResult") =>
                  wl = c /\ LeftWithError(c, "Write")
            /\ (call[c].pc = "RdIssue" /\ call'[c].pc = "RdResult") =>
                  ov'.r.owner = c /\ (ov'.r.pending \/ ov'.r.event)
            /\ (call[c].pc = "WrIssue" /\ call'[c].pc = "WrResult") =>
                  ov'.w.owner = c /\ (ov'.w.pending \/ ov'.w.event)]_vars

\* a Write whose WriteFile failed has returned while a Read waits for the
\* device: the write lock is free, the read lock held
C26_Witness ==
    /\ IsWin(backend)
    /\ res.op = "Write" /\ res.dev = "fail" /\ ~res.waited /\ res.err # "nil"
    /\ wl = 0 /\ rl # 0 /\ ov.r.pending

\* a Read or a Write has returned n >= 1 bytes and no error
TransferReturn == res.op \in {"Read", "Write"} /\ res.err = "nil" /\ res.n >= 1

(***************************************************************************)
(* C27: with a logger attached, a Read or Write that returns n >= 1 and no *)
(* error has handed n bytes to logData, the first n of its buffer, under   *)
(* its tag; the rest of the buffer is not added to the trace.              *)
(***************************************************************************)
C27_LogsTransferredBytes ==
    (lg.logger /\ TransferReturn) =>
        /\ HandedOver(res, IF res.op = "Read" THEN TagRead ELSE TagWrite,
                      SubSeq(res.buf, 1, res.n))
        /\ res.alone => TraceBytes(lg) = res.pre.bytes + res.n

\* the bytes handed to logData on this step
StepBytes ==
    LET new == DataEntries(SubSeq(logged', Len(logged) + 1, Len(logged')))
    IN  [i \in 1 .. Len(new) |-> new[i].byte]

(***************************************************************************)
(* C28: through every sequence of logData, logMsg, logFlush and Close      *)
(* calls, whatever the tags and the lengths, logPtr is in 0 .. capacity;   *)
(* and the bytes in the buffer leave it through the rows of a flush only:  *)
(* a call changes what the trace holds, rows and buffer read in order, by  *)
(* appending the bytes it was handed and in no other way.                  *)
(***************************************************************************)
C28_PointerInRange ==
    /\ [](lg.logPtr \in 0 .. Len(lg.logBuf))
    /\ [][lg.logger => TraceOrder(lg') = TraceOrder(lg) \o StepBytes]_vars

\* a buffer's worth has been logged in one call and stands unflushed, and
\* the Port has been closed before
C28_Witness ==
    /\ lg.logger /\ lg.logPtr = Len(lg.logBuf)
    /\ \E i \in 1 .. Len(logged) : logged[i].op = "close"

\* the indices of s that satisfy Test, in order
Indices(s, Test(_)) == SelectSeq([i \in 1 .. Len(s) |-> i], Test)

(***************************************************************************)
(* C29: the messages stand in the sink in the order of the calls that      *)
(* wrote them (logMsg, and the logMsg of Close), and each has before it in *)
(* the sink exactly the data bytes that were logged before its call: what  *)
(* was buffered is flushed before the message is written, and what is      *)
(* logged later comes after it.                                            *)
(***************************************************************************)
C29_MsgAfterPendingData ==
    lg.logger =>
        LET sm == Indices(lg.sink, LAMBDA i : lg.sink[i].kind = "msg")
            lm == Indices(logged, LAMBDA i : logged[i].op \in {"msg", "close"})
        IN  /\ Len(sm) = Len(lm)
            /\ \A k \in 1 .. Len(sm) :
                  /\ lg.sink[sm[k]].tag
                       = (IF logged[lm[k]].op = "msg" THEN "Msg" ELSE "Close")
                  /\ Len(RowBytes(SubSeq(lg.sink, 1, sm[k] - 1)))
                       = Len(DataEntries(SubSeq(logged, 1, lm[k] - 1)))

\* three bytes, a message, one more byte: the three are in a row before the
\* message, the one is buffered
C29_Witness ==
    /\ lg.logger
    /\ Len(logged) = 5 /\ logged[4].op = "msg" /\ logged[5].op = "data"
    /\ Len(lg.sink) = 2
    /\ lg.sink[1].kind = "row" /\ Len(lg.sink[1].bytes) = 3
    /\ lg.sink[2].kind = "msg"
    /\ lg.logPtr = 1

\* this step is a call of logFlush
FlushStep ==
    /\ Len(logged') = Len(logged) + 1
    /\ logged'[Len(logged')].op = "flush"

(***************************************************************************)
(* C30: a logFlush on an empty buffer prints nothing and leaves the logger *)
(* as it was, tag and pointer included; any logFlush leaves the buffer     *)
(* empty and the tag alone, so a second logFlush after it changes nothing: *)
(* two in a row print what one prints.                                     *)
(***************************************************************************)
C30_FlushEmptyIsNoOp ==
    [][FlushStep =>
          /\ lg.logPtr = 0 => lg' = lg
          /\ lg'.logPtr = 0 /\ lg'.logTag = lg.logTag
          /\ logFlush(lg') = lg']_vars

\* three bytes were logged and logFlush called twice: one row is out
C30_Witness ==
    /\ lg.logger
    /\ Len(logged) = 5 /\ logged[3].op = "data"
    /\ logged[4].op = "flush" /\ logged[5].op = "flush"
    /\ Len(lg.sink) = 1 /\ Len(lg.sink[1].bytes) = 3
    /\ lg.logPtr = 0 /\ lg.logTag # 0

\* this step is a call of logData, logMsg or logFlush
LoggerCallStep ==
    /\ Len(logged') > Len(logged)
    /\ logged'[Len(logged')].op \in {"data", "msg", "flush"}

(***************************************************************************)
(* C31: with no logger attached a logData, logMsg or logFlush, whatever    *)
(* its tag and the length of its data, prints nothing and leaves logTag,   *)
(* logBuf and logPtr as they were.                                         *)
(***************************************************************************)
C31_NilLoggerNoOp ==
    [][(~lg.logger /\ LoggerCallStep) =>
          /\ lg'.sink = lg.sink
          /\ lg'.logTag = lg.logTag
          /\ lg'.logBuf = lg.logBuf
          /\ lg'.logPtr = lg.logPtr]_vars

\* without a logger, more data than the buffer holds, a message and a
\* flush have been logged: the trace fields are those of a new Port
C31_Witness ==
    /\ ~lg.logger
    /\ Len(DataEntries(logged)) = Len(lg.logBuf) + 2
    /\ Len(logged) = Len(lg.logBuf) + 4
    /\ \E i \in 1 .. Len(logged) : logged[i].op = "msg"
    /\ \E i \in 1 .. Len(logged) : logged[i].op = "flush"
    /\ lg = NewPortLog(backend)

(***************************************************************************)
(* C32: on the Windows builds, when openPort fails after a completion      *)
(* event has been created, the error is returned with everything acquired  *)
(* released: every event that was created, and the device descriptor.      *)
(***************************************************************************)
C32_FailedOpenReleasesEvents ==
    (IsWin(backend) /\ phase = "failed" /\ ret.events > 0) =>
        /\ ret.err # "nil"
        /\ fd.closes = fd.opens
        /\ ret.released = ret.events

\* where in the bytes of the rows of lines row k begins
RowOffset(lines, k) == Len(RowBytes(SubSeq(lines, 1, k - 1)))

\* Every row of the sink holds the bytes handed to logData at the row's
\* place, and its rune is the tag each of them was handed over with.
RowsCarry ==
    LET d == DataEntries(logged)
    IN  \A k \in 1 .. Len(lg.sink) :
           lg.sink[k].kind = "row" =>
              \A j \in 1 .. Len(lg.sink[k].bytes) :
                 LET e == d[RowOffset(lg.sink, k) + j]
                 IN  /\ lg.sink[k].bytes[j] = e.byte
                     /\ lg.sink[k].rune = e.tag

\* Nothing is lost, doubled or out of place: rows, then buffer, are the
\* bytes handed to logData.
NothingLost ==
    LET d == DataEntries(logged)
    IN  /\ TraceBytes(lg) = Len(d)
        /\ \A i \in 1 .. lg.logPtr :
              /\ lg.logBuf[i] = d[Len(d) - lg.logPtr + i].byte
              /\ lg.logTag = d[Len(d) - lg.logPtr + i].tag

(***************************************************************************)
(* C33: with a logger, after any sequence of logData, logMsg and logFlush  *)
(* calls under the tags the package passes to logData ('+' from Read, '-'  *)
(* from Write, in any order), the bytes printed followed by the bytes      *)
(* buffered are the bytes handed to logData, in order and each once, and   *)
(* every row printed carries the tag all its bytes were logged under.      *)
(* logTag is 0 only while nothing has been buffered, so the blank that     *)
(* logFlush prints for the zero tag stands in no row.                      *)
(***************************************************************************)
C33_RowsCarryTheirTag ==
    lg.logger =>
        /\ NothingLost
        /\ RowsCarry
        /\ lg.logPtr > 0 => lg.logTag \in LogTags

\* a row and a byte under '+', a byte under '-', then a message: a full
\* row and a row of one byte with '+', a row of one byte with '-', and the
\* message after them
C33_Witness ==
    /\ lg.logger
    /\ Len(DataEntries(logged)) = RowLen + 2
    /\ logged[1].tag = TagRead /\ logged[RowLen + 2].tag = TagWrite
    /\ logged[Len(logged)].op = "msg"
    /\ Len(lg.sink) = 4
    /\ lg.sink[1].rune = TagRead /\ Len(lg.sink[1].bytes) = RowLen
    /\ lg.sink[2].rune = TagRead /\ Len(lg.sink[2].bytes) = 1
    /\ lg.sink[3].rune = TagWrite /\ Len(lg.sink[3].bytes) = 1
    /\ lg.sink[4].kind = "msg"
    /\ lg.logPtr = 0 /\ lg.logTag = TagWrite

(***************************************************************************)
(* Read on an invalid Port (Windows builds).  The program holds such a     *)
(* Port before OpenPort has returned one: the nil *Port of a declaration   *)
(* or of a failed OpenPort, and the Port of new(Port), whose f is nil.     *)
(* Read begins                                                             *)
(*     if p == nil || p.f == nil {                                         *)
(*         return 0, fmt.Errorf("invalid port on read %v %v", p, p.f) }    *)
(* and the arguments of Errorf are evaluated before it is called: with a   *)
(* nil p the selector p.f dereferences nil, a run-time panic.              *)
(***************************************************************************)
InvalidPorts == {"nil", "nofile"}

\* the outcome of Read on the invalid port: panic, or the values returned
readInvalid(b, port) ==
    IF port = "nil"
    THEN [panic |-> TRUE, n |-> 0, err |-> "nil"]
    ELSE [panic |-> FALSE, n |-> 0,
          err |-> IF b = "win" THEN "invalid port on read" ELSE "Invalid port on read"]

ReadInvalid ==
    /\ IsWin(backend) /\ phase \in {"new", "failed"} /\ calls < MaxCalls
    /\ \E port \in InvalidPorts, len \in 0 .. MaxBuf :
          LET r == readInvalid(backend, port)
          IN  /\ res' = [NoCall EXCEPT !.op = "Read", !.arg = port, !.n = r.n,
                                       !.err = r.err, !.buf = Zeros(len)]
              /\ phase' = IF r.panic THEN "panicked" ELSE phase
    /\ calls' = calls + 1
    /\ UNCHANGED <<tvars, backend, cfg, ret, fd, tmo, lg, closed, call, rl, wl, ov>>

INext == OpenAny \/ ReadInvalid

SpecInvalid == Init /\ [][INext]_vars

(***************************************************************************)
(* C34: on the Windows builds Read on an invalid Port (a nil Port, or a    *)
(* Port whose file is nil) returns 0 and a non-nil error; it does not take *)
(* the read lock, issues no I/O and does not panic.                        *)
(***************************************************************************)
C34_InvalidPortRead ==
    [][(res'.op = "Read" /\ res'.arg \in InvalidPorts) =>
          /\ phase' # "panicked"
          /\ res'.n = 0 /\ res'.err # "nil"
          /\ rl' = rl /\ ov' = ov /\ call' = call]_vars

====
